---- MODULE Spec2Model ----
(***************************************************************************)
(* Verification model of cargo-spellcheck's patch pipeline:                *)
(*   - correct_lines              (src/src/action/mod.rs)                  *)
(*   - Action::correction and Action::write_changes_to_disk                *)
(*   - UserPicked::select_interactive / user_input (action/interactive.rs) *)
(* Strings are sequences of one-character strings; a byte column is an     *)
(* index into such a sequence (ASCII text, one byte per character).        *)
(***************************************************************************)
EXTENDS Integers, Sequences, FiniteSets, TLC

\* ------------------------------------------------------------------------
\* Bounds of the model
\* ------------------------------------------------------------------------
MaxLines == 3
MaxBandaids == 2
MaxCol == 2
MaxFiles == 2
MaxSugg == 2
MaxCand == 2
MaxTotal == 3

NL == "\n"
Alphabet == <<"a", "b", "c", "d", "e">>
\* Line texts fed to correct_lines: an empty line and a line of MaxCol bytes.
LineTexts == {<<>>, SubSeq(Alphabet, 1, MaxCol)}
\* Replacement texts of a BandAid: a deletion and a text longer than one column.
Replacements == {<<>>, <<"x", "y">>}

\* ------------------------------------------------------------------------
\* Data model: Span, Range, BandAid
\* ------------------------------------------------------------------------
\* A Span: a line number and a half-open byte-column range on that line.
Spans == [line : 1..MaxLines, start : 0..MaxCol, end : 0..MaxCol]
BandAids == {b \in [span : Spans, replacement : Replacements] : b.span.start <= b.span.end}

\* Span::covers_line
CoversLine(span, line_number) == span.line = line_number

\* TryInto<Range> for Span (single-line spans only)
SpanToRange(span) == [start |-> span.start, end |-> span.end]

\* content[a..b]
Slice(content, a, b) == SubSeq(content, a + 1, b)

VARIABLES
    bandaids,   \* correct_lines: the BandAid iterator, as the whole sequence
    source,     \* correct_lines: the (line_number, content) iterator; line i is source[i]
    sink,       \* correct_lines: the bytes written so far
    nxt,        \* correct_lines: index of the pending BandAid, Len(bandaids)+1 is None
    lineno,     \* correct_lines: number of source lines consumed
    cpc,        \* correct_lines: "run", "done" (Ok(())) or "panic"
    sset,       \* select_interactive: suggestions_per_path, in collection order
    fileIdx,    \* select_interactive: position of `for (path, suggestions)`
    sugIdx,     \* select_interactive: items taken from suggestions_it
    state,      \* user_input: the State of the prompted suggestion
    pick,       \* select_interactive: the Pick returned by user_input
    picked,     \* UserPicked.bandaids, an IndexMap, as its entries in order
    spc,        \* select_interactive: "idle", "iter", "input", "match", "done",
                \* "error", "unimplemented", "unreachable"
    typed,      \* history: the characters typed during this prompt while the
                \* custom slot was highlighted, in typing order
    away,       \* history: the custom slot was left with a non-empty buffer
                \* during this prompt
    fs,         \* the file system: path -> bytes of the file
    tmp,        \* the temporary file .spellcheck.tmp: [exists, bytes]
    writer,     \* Action::correction: the bytes held by the BufWriter
    opened,     \* the paths Action::correction has opened for reading
    wIdx,       \* write_changes_to_disk: position in userpicked.bandaids
    wpc,        \* write_changes_to_disk / correction: "idle", "canonicalize",
                \* "open", "create", "correct", "flush", "rename", "ok", "err"
    raw,        \* the terminal is in raw mode
    toggleFailed, \* history: an enable_raw_mode of this session failed
    helpShown,  \* history: HELP was printed during this prompt
    resized,    \* history: an Event::Resize was read during this prompt
    cIdx,       \* Action::check: position of `for (_path, suggestions)`
    count,      \* Action::check: the local `count`
    cresult,    \* Action::check: [pc, count], pc is "idle", "run", "ok" (Ok(()))
                \* or "err" (Err with the reported count)
    markdown,   \* extract_plain_with_mapping: the raw text, a sequence of bytes
    events,     \* the (event, offset) pairs of parser.into_offset_iter()
    evIdx,      \* extract_plain_with_mapping: position in the event stream
    plain,      \* the plain buffer
    mapping,    \* the IndexMap plain range -> raw range, in its entry order
    code_block, \* extract_plain_with_mapping: the local `code_block`
    synthetic,  \* history: the 0-based offsets of the plain buffer that
                \* PlainOverlay::newlines wrote
    mpc,        \* "idle", "run" (event loop), "done" (overlay built),
                \* "panic" (assert of the post-processing), "resolved"
    plain_range, \* linear_range_to_spans: the queried range
    resolved,   \* linear_range_to_spans: [spans, panicked], spans are the raw
                \* ranges handed to LiteralSet::linear_range_to_spans
    overflowChecks, \* the build panics on integer overflow (debug) or wraps
    input,      \* tokenize: the str s, a sequence of scalar characters
    cpos,       \* tokenize: number of characters taken from s.char_indices()
    started,    \* tokenize: the local `started`
    linear_start, \* tokenize: the local `linear_start`
    bananasplit, \* tokenize: the ranges pushed so far
    tpc,        \* tokenize: "idle", "run", "done"
    config,     \* checker::check: [features, enabled], sets of detectors
    outcome,    \* checker::check: detector -> the Result its checker returns
    collective, \* checker::check: the SuggestionSet `collective`
    kpc         \* checker::check: "idle", "languagetool", "hunspell", "ok"

patchVars == <<bandaids, source, sink, nxt, lineno, cpc>>
ctlVars == <<sset, fileIdx, sugIdx, state, pick, picked, spc, typed, away>>
ioVars == <<fs, tmp, writer, opened, wIdx, wpc>>
termVars == <<raw, toggleFailed, helpShown, resized>>
chkVars == <<cIdx, count, cresult>>
mdVars == <<markdown, events, evIdx, plain, mapping, code_block, synthetic, mpc,
            plain_range, resolved, overflowChecks>>
tokVars == <<input, cpos, started, linear_start, bananasplit, tpc>>
ckrVars == <<config, outcome, collective, kpc>>
vars == <<bandaids, source, sink, nxt, lineno, cpc,
          sset, fileIdx, sugIdx, state, pick, picked, spc, typed, away,
          fs, tmp, writer, opened, wIdx, wpc,
          raw, toggleFailed, helpShown, resized, cIdx, count, cresult,
          markdown, events, evIdx, plain, mapping, code_block, synthetic, mpc,
          plain_range, resolved, overflowChecks,
          input, cpos, started, linear_start, bananasplit, tpc,
          config, outcome, collective, kpc>>

\* ------------------------------------------------------------------------
\* correct_lines
\* ------------------------------------------------------------------------
\* sink.write(content); sink.write("\n")
EmitUnchangedNoNewline(content) == content
EmitUnchanged(content) == content \o <<NL>>

\* the prelude between the start of the line or the previous replacement
PreludeRebased(content, remainder_column, range) ==
    IF range.start > remainder_column
    THEN Slice(content, 0, range.start - remainder_column)
    ELSE <<>>
Prelude(content, remainder_column, range) ==
    IF range.start > remainder_column
    THEN Slice(content, remainder_column, range.start)
    ELSE <<>>

\* the slice content[remainder_column..range.start] is out of bounds
PreludePanics(content, remainder_column, range) ==
    range.start > remainder_column /\ range.start > Len(content)

\* the rest of the line after the last replacement
Remainder(content, remainder_column) ==
    IF remainder_column < Len(content)
    THEN Slice(content, remainder_column, Len(content))
    ELSE <<>>

\* complete_current_line: the new pending BandAid does not target this line
CompleteCurrentLine(bs, i, line_number) ==
    IF i <= Len(bs) THEN ~CoversLine(bs[i].span, line_number) ELSE TRUE

\* the `while let Some(bandaid) = nxt.take()` loop on one line, entered with
\* the pending BandAid bs[i] covering the line
RECURSIVE ApplyLoop(_, _, _, _, _, _)
ApplyLoop(bs, i, line_number, content, remainder_column, out) ==
    LET range == SpanToRange(bs[i].span)
        out1 == out \o Prelude(content, remainder_column, range) \o bs[i].replacement
    IN  IF PreludePanics(content, remainder_column, range)
        THEN [out |-> out, nxt |-> i, panicked |-> TRUE]
        ELSE IF CompleteCurrentLine(bs, i + 1, line_number)
        THEN [out |-> out1 \o Remainder(content, range.end) \o <<NL>>,
              nxt |-> i + 1, panicked |-> FALSE]
        ELSE ApplyLoop(bs, i + 1, line_number, content, range.end, out1)

\* one iteration of `for (line_number, content) in source`
CorrectLineDropStale(bs, i, line_number, content) ==
    IF i > Len(bs)
    THEN [out |-> EmitUnchanged(content), nxt |-> i, panicked |-> FALSE]
    ELSE IF ~CoversLine(bs[i].span, line_number)
    THEN [out |-> EmitUnchanged(content),
          nxt |-> IF bs[i].span.line < line_number THEN i + 1 ELSE i,
          panicked |-> FALSE]
    ELSE ApplyLoop(bs, i, line_number, content, 0, <<>>)
CorrectLineNoCoverCheck(bs, i, line_number, content) ==
    IF i > Len(bs)
    THEN [out |-> EmitUnchanged(content), nxt |-> i, panicked |-> FALSE]
    ELSE ApplyLoop(bs, i, line_number, content, 0, <<>>)
CorrectLine(bs, i, line_number, content) ==
    IF i > Len(bs)
    THEN [out |-> EmitUnchanged(content), nxt |-> i, panicked |-> FALSE]
    ELSE IF ~CoversLine(bs[i].span, line_number)
    THEN [out |-> EmitUnchanged(content), nxt |-> i, panicked |-> FALSE]
    ELSE ApplyLoop(bs, i, line_number, content, 0, <<>>)

\* all sequences over S of length at most n
SeqsUpTo(S, n) == UNION {[1..k -> S] : k \in 0..n}

\* ------------------------------------------------------------------------
\* Suggestions, State and Pick (action/interactive.rs)
\* ------------------------------------------------------------------------
\* Candidate replacement texts offered by a checker, by position.
CandidateTexts == <<(<<"u">>), (<<"v", "w">>), (<<"u", "v", "w">>)>>

\* The span of the i-th suggestion of a file: ascending and non-overlapping,
\* two per line.
SpanOf(i) ==
    [line |-> 1 + ((i - 1) \div 2), start |-> (i - 1) % 2, end |-> ((i - 1) % 2) + 1]

\* The i-th suggestion of a file, with c candidates.
SuggestionOf(i, c) == [span |-> SpanOf(i), replacements |-> SubSeq(CandidateTexts, 1, c)]

PathOf(f) == <<"f", f>>

\* All SuggestionSets of up to MaxFiles files with up to MaxSugg suggestions
\* of up to MaxCand candidates each.
RECURSIVE TotalLen(_, _)
TotalLen(cs, f) == IF f > Len(cs) THEN 0 ELSE Len(cs[f]) + TotalLen(cs, f + 1)

CandidateCounts ==
    UNION { {cs \in [1..nf -> SeqsUpTo(0..MaxCand, MaxSugg)] : TotalLen(cs, 1) <= MaxTotal}
            : nf \in 1..MaxFiles }

SuggestionSets ==
    { [f \in 1..Len(cs) |->
          [path |-> PathOf(f),
           suggestions |-> [i \in 1..Len(cs[f]) |-> SuggestionOf(i, cs[f][i])]]]
      : cs \in CandidateCounts }

NoBandaid == [span |-> [line |-> 0, start |-> 0, end |-> 0], replacement |-> <<>>]
NoState == [pick_idx |-> 0, custom_replacement |-> <<>>, n_items |-> 0]
Pick(kind) == [kind |-> kind, bandaid |-> NoBandaid]
PickReplacement(b) == [kind |-> "Replacement", bandaid |-> b]

\* The suggestion under the prompt.
CurrentSuggestion == sset[fileIdx].suggestions[sugIdx]

\* State::from(&suggestion)
StateFrom(suggestion) ==
    [pick_idx |-> 0, custom_replacement |-> <<>>,
     n_items |-> Len(suggestion.replacements) + 1]

\* State::select_next
SelectNext(st) == [st EXCEPT !.pick_idx = (st.pick_idx + 1) % st.n_items]

SelectPreviousNoWrap(st) ==
    [st EXCEPT !.pick_idx = IF st.pick_idx = 0 THEN 0 ELSE st.pick_idx - 1]

\* State::select_previous
SelectPrevious(st) ==
    [st EXCEPT !.pick_idx = (st.pick_idx + st.n_items - 1) % st.n_items]

\* State::select_custom
SelectCustom(st) == [st EXCEPT !.pick_idx = st.n_items - 1]

\* State::is_custom_entry
IsCustomEntry(st) == st.pick_idx + 1 = st.n_items

\* BandAid::new(replacement, span) and BandAid::from((replacement, span))
BandAidNew(replacement, span) == [span |-> span, replacement |-> replacement]

\* BandAid::try_from((suggestion, pick_idx)): the candidate at pick_idx, an
\* error when there is none
BandAidTryFrom(suggestion, pick_idx) ==
    IF pick_idx < Len(suggestion.replacements)
    THEN [ok |-> TRUE,
          bandaid |-> BandAidNew(suggestion.replacements[pick_idx + 1], suggestion.span)]
    ELSE [ok |-> FALSE, bandaid |-> NoBandaid]

\* State::to_bandaid; `failed` is the expect() firing
ToBandaidFirstCandidate(st, suggestion) ==
    IF IsCustomEntry(st)
    THEN [failed |-> FALSE, bandaid |-> BandAidNew(st.custom_replacement, suggestion.span)]
    ELSE LET r == BandAidTryFrom(suggestion, 0)
         IN  [failed |-> ~r.ok, bandaid |-> r.bandaid]
ToBandaid(st, suggestion) ==
    IF IsCustomEntry(st)
    THEN [failed |-> FALSE, bandaid |-> BandAidNew(st.custom_replacement, suggestion.span)]
    ELSE LET r == BandAidTryFrom(suggestion, st.pick_idx)
         IN  [failed |-> ~r.ok, bandaid |-> r.bandaid]

\* The text the modelled user types into the custom slot, a character at a
\* time: both characters are commands while a candidate is highlighted.
CustomTexts == {<<"q", "y">>}
IsPrefix(s, t) == Len(s) <= Len(t) /\ SubSeq(t, 1, Len(s)) = s

\* Terminal key events
CharKeys == {"y", "n", "j", "c", "q", "d", "e", "?", "x"}
KeyEvents ==
    [code : {"Up", "Down", "Enter", "Esc", "Backspace"}, ch : {""}, modifiers : {"NONE"}]
        \cup [code : {"Char"}, ch : CharKeys, modifiers : {"NONE", "CONTROL"}]

\* What one pass of the input loop yields: the new State and either a
\* returned Pick or another pass (`continue`).
Return(st, p) == [state |-> st, returned |-> TRUE, pick |-> p, panicked |-> FALSE]
Continue(st) == [state |-> st, returned |-> FALSE, pick |-> Pick("Nop"), panicked |-> FALSE]

\* UserPicked::custom_replacement
CustomReplacementClearsOnLeave(st, suggestion, event) ==
    CASE event.code = "Up" ->
            [state |-> [SelectNext(st) EXCEPT !.custom_replacement = <<>>],
             pick |-> Pick("Nop")]
      [] event.code = "Down" ->
            [state |-> [SelectPrevious(st) EXCEPT !.custom_replacement = <<>>],
             pick |-> Pick("Nop")]
      [] event.code = "Enter" ->
            [state |-> st,
             pick |-> PickReplacement(BandAidNew(st.custom_replacement, suggestion.span))]
      [] event.code = "Esc" -> [state |-> st, pick |-> Pick("Quit")]
      [] event.code = "Char" /\ event.ch = "c" /\ event.modifiers = "CONTROL" ->
            [state |-> st, pick |-> Pick("Quit")]
      [] event.code = "Char" /\ ~(event.ch = "c" /\ event.modifiers = "CONTROL") ->
            [state |-> [st EXCEPT !.custom_replacement = Append(@, event.ch)],
             pick |-> Pick("Nop")]
      [] OTHER -> [state |-> st, pick |-> Pick("Nop")]
CustomReplacement(st, suggestion, event) ==
    CASE event.code = "Up" -> [state |-> SelectNext(st), pick |-> Pick("Nop")]
      [] event.code = "Down" -> [state |-> SelectPrevious(st), pick |-> Pick("Nop")]
      [] event.code = "Enter" ->
            [state |-> st,
             pick |-> PickReplacement(BandAidNew(st.custom_replacement, suggestion.span))]
      [] event.code = "Esc" -> [state |-> st, pick |-> Pick("Quit")]
      [] event.code = "Char" /\ event.ch = "c" /\ event.modifiers = "CONTROL" ->
            [state |-> st, pick |-> Pick("Quit")]
      [] event.code = "Char" /\ ~(event.ch = "c" /\ event.modifiers = "CONTROL") ->
            [state |-> [st EXCEPT !.custom_replacement = Append(@, event.ch)],
             pick |-> Pick("Nop")]
      [] OTHER -> [state |-> st, pick |-> Pick("Nop")]

\* the `match code` of user_input, reached when the custom slot is not highlighted
SelectingKey(st, suggestion, event) ==
    CASE event.code = "Up" -> Continue(SelectNext(st))
      [] event.code = "Down" -> Continue(SelectPrevious(st))
      [] event.code = "Enter" \/ (event.code = "Char" /\ event.ch = "y") ->
            LET b == ToBandaid(st, suggestion)
            IN  [state |-> st, returned |-> TRUE,
                 pick |-> PickReplacement(b.bandaid), panicked |-> b.failed]
      [] event.code = "Char" /\ event.ch = "n" -> Return(st, Pick("Skip"))
      [] event.code = "Char" /\ event.ch = "j" -> Return(st, Pick("Previous"))
      [] event.code = "Char" /\ event.ch = "c" /\ event.modifiers = "CONTROL" ->
            Return(st, Pick("Quit"))
      [] event.code = "Esc" \/ (event.code = "Char" /\ event.ch = "q") ->
            Return(st, Pick("Quit"))
      [] event.code = "Char" /\ event.ch = "d" -> Return(st, Pick("SkipFile"))
      [] event.code = "Char" /\ event.ch = "e" -> Continue(SelectCustom(st))
      [] event.code = "Char" /\ event.ch = "?" -> Return(st, Pick("Help"))
      [] OTHER -> Continue(st)

\* one pass of the `loop` of user_input on a key event
HandleKey(st, suggestion, event) ==
    IF IsCustomEntry(st)
    THEN LET r == CustomReplacement(st, suggestion, event)
         IN  IF r.pick.kind = "Nop" THEN Continue(r.state) ELSE Return(r.state, r.pick)
    ELSE SelectingKey(st, suggestion, event)

\* UserPicked::count
RECURSIVE CountFrom(_, _)
CountFrom(entries, k) ==
    IF k > Len(entries) THEN 0 ELSE Len(entries[k].bandaids) + CountFrom(entries, k + 1)
Count(entries) == CountFrom(entries, 1)

AddBandaidInFront(entries, path, fix) ==
    IF \E k \in 1..Len(entries) : entries[k].path = path
    THEN [k \in 1..Len(entries) |->
             IF entries[k].path = path
             THEN [entries[k] EXCEPT !.bandaids = <<fix>> \o @]
             ELSE entries[k]]
    ELSE Append(entries, [path |-> path, bandaids |-> <<fix>>])

\* UserPicked::add_bandaid
AddBandaid(entries, path, fix) ==
    IF \E k \in 1..Len(entries) : entries[k].path = path
    THEN [k \in 1..Len(entries) |->
             IF entries[k].path = path
             THEN [entries[k] EXCEPT !.bandaids = Append(@, fix)]
             ELSE entries[k]]
    ELSE Append(entries, [path |-> path, bandaids |-> <<fix>>])

\* ------------------------------------------------------------------------
\* ScopedRaw
\* ------------------------------------------------------------------------
\* ScopedRaw::new(): the terminal is in raw mode afterwards iff
\* enable_raw_mode succeeded; the Result is bound, never inspected
ScopedRawNew(ok) == ok

\* the guard keeps the terminal in raw mode after its scope
GuardForgotten(r) == r
\* the guard leaves its scope (drop(guard), end of block, return, `?`, break
\* or unwinding): Drop calls disable_raw_mode; an Err value holds no guard
DropGuard(r) == FALSE

\* the call of user_input up to the top of its loop: the guard of the first
\* block (ok1) is dropped at the end of the block, then the loop creates
\* its guard (ok2)
EnterUserInput(ok1, ok2) ==
    /\ raw' = ScopedRawNew(ok2)
    /\ toggleFailed' = (toggleFailed \/ ~ok1 \/ ~ok2)

\* user_input goes round its loop: the guard of the iteration is dropped
\* and the next iteration creates its own
NextIteration(ok) ==
    /\ raw' = ScopedRawNew(ok)
    /\ toggleFailed' = (toggleFailed \/ ~ok)

\* user_input is left: the guard of the iteration is dropped
LeaveUserInput ==
    /\ raw' = DropGuard(raw)
    /\ UNCHANGED toggleFailed

TermIdle ==
    /\ raw = FALSE
    /\ toggleFailed = FALSE
    /\ helpShown = FALSE
    /\ resized = FALSE

ChkIdle ==
    /\ cIdx = 0
    /\ count = 0
    /\ cresult = [pc |-> "idle", count |-> 0]

NoRange == [start |-> 0, end |-> 0]
NoSpans == [spans |-> <<>>, panicked |-> FALSE]

MdIdle ==
    /\ markdown = <<>>
    /\ events = <<>>
    /\ evIdx = 0
    /\ plain = <<>>
    /\ mapping = <<>>
    /\ code_block = FALSE
    /\ synthetic = {}
    /\ mpc = "idle"
    /\ plain_range = NoRange
    /\ resolved = NoSpans
    /\ overflowChecks = FALSE

TokIdle ==
    /\ input = <<>>
    /\ cpos = 0
    /\ started = FALSE
    /\ linear_start = 0
    /\ bananasplit = <<>>
    /\ tpc = "idle"

CkrIdle ==
    /\ config = [features |-> {}, enabled |-> {}]
    /\ outcome = <<>>
    /\ collective = <<>>
    /\ kpc = "idle"

\* ------------------------------------------------------------------------
\* UserPicked::select_interactive and user_input as a state machine
\* ------------------------------------------------------------------------
CtlIdle ==
    /\ sset = <<>>
    /\ fileIdx = 0
    /\ sugIdx = 0
    /\ state = NoState
    /\ pick = Pick("None")
    /\ picked = <<>>
    /\ spc = "idle"
    /\ typed = <<>>
    /\ away = FALSE

NoFile == [exists |-> FALSE, bytes |-> <<>>]

\* The content of every source file before the run: two lines.
FileContent == <<"a", "b", NL, "c", "d", NL>>

IoIdle ==
    /\ fs = <<>>
    /\ tmp = NoFile
    /\ writer = <<>>
    /\ opened = {}
    /\ wIdx = 0
    /\ wpc = "idle"

PatchIdle ==
    /\ bandaids = <<>>
    /\ source = <<>>
    /\ sink = <<>>
    /\ nxt = 0
    /\ lineno = 0
    /\ cpc = "idle"

Init ==
    /\ sset \in SuggestionSets
    /\ fileIdx = 1
    /\ sugIdx = 0
    /\ state = NoState
    /\ pick = Pick("None")
    /\ picked = <<>>
    /\ spc = "iter"
    /\ typed = <<>>
    /\ away = FALSE
    /\ PatchIdle
    /\ fs = [f \in {sset[k].path : k \in 1..Len(sset)} |-> FileContent]
    /\ tmp = NoFile
    /\ writer = <<>>
    /\ opened = {}
    /\ wIdx = 0
    /\ wpc = "idle"
    /\ TermIdle
    /\ ChkIdle
    /\ MdIdle
    /\ TokIdle
    /\ CkrIdle

\* suggestions_it.next() is Some(suggestion) without a candidate: continue
PromptEmptySuggestion ==
    /\ spc = "iter"
    /\ fileIdx <= Len(sset)
    /\ sugIdx < Len(sset[fileIdx].suggestions)
    /\ sset[fileIdx].suggestions[sugIdx + 1].replacements = <<>>
    /\ sugIdx' = sugIdx + 1
    /\ state' = StateFrom(sset[fileIdx].suggestions[sugIdx + 1])
    /\ spc' = "input"
    /\ UNCHANGED <<sset, fileIdx, pick, picked, typed, away>>
    /\ UNCHANGED patchVars
    /\ UNCHANGED ioVars
    /\ UNCHANGED termVars
    /\ UNCHANGED chkVars
    /\ UNCHANGED mdVars
    /\ UNCHANGED tokVars
    /\ UNCHANGED ckrVars
SkipEmptySuggestion ==
    /\ spc = "iter"
    /\ fileIdx <= Len(sset)
    /\ sugIdx < Len(sset[fileIdx].suggestions)
    /\ sset[fileIdx].suggestions[sugIdx + 1].replacements = <<>>
    /\ sugIdx' = sugIdx + 1
    /\ UNCHANGED <<sset, fileIdx, state, pick, picked, spc, typed, away>>
    /\ UNCHANGED patchVars
    /\ UNCHANGED ioVars
    /\ UNCHANGED termVars
    /\ UNCHANGED chkVars
    /\ UNCHANGED mdVars
    /\ UNCHANGED tokVars
    /\ UNCHANGED ckrVars

\* suggestions_it.next() is Some(suggestion) with candidates: State::from and
\* the call of user_input
PromptSuggestion ==
    /\ spc = "iter"
    /\ fileIdx <= Len(sset)
    /\ sugIdx < Len(sset[fileIdx].suggestions)
    /\ sset[fileIdx].suggestions[sugIdx + 1].replacements # <<>>
    /\ sugIdx' = sugIdx + 1
    /\ state' = StateFrom(sset[fileIdx].suggestions[sugIdx + 1])
    /\ spc' = "input"
    /\ \E ok1, ok2 \in BOOLEAN : EnterUserInput(ok1, ok2)
    /\ UNCHANGED <<sset, fileIdx, pick, picked, typed, away, helpShown, resized>>
    /\ UNCHANGED patchVars
    /\ UNCHANGED ioVars
    /\ UNCHANGED chkVars
    /\ UNCHANGED mdVars
    /\ UNCHANGED tokVars
    /\ UNCHANGED ckrVars

FileCompletedRestarts ==
    /\ spc = "iter"
    /\ fileIdx <= Len(sset)
    /\ sugIdx = Len(sset[fileIdx].suggestions)
    /\ fileIdx' = fileIdx
    /\ sugIdx' = 0
    /\ UNCHANGED <<sset, state, pick, picked, spc, typed, away>>
    /\ UNCHANGED patchVars
    /\ UNCHANGED ioVars
    /\ UNCHANGED termVars
    /\ UNCHANGED chkVars
    /\ UNCHANGED mdVars
    /\ UNCHANGED tokVars
    /\ UNCHANGED ckrVars

\* suggestions_it.next() is None going forward: the file is completed
FileCompleted ==
    /\ spc = "iter"
    /\ fileIdx <= Len(sset)
    /\ sugIdx = Len(sset[fileIdx].suggestions)
    /\ fileIdx' = fileIdx + 1
    /\ sugIdx' = 0
    /\ UNCHANGED <<sset, state, pick, picked, spc, typed, away>>
    /\ UNCHANGED patchVars
    /\ UNCHANGED ioVars
    /\ UNCHANGED termVars
    /\ UNCHANGED chkVars
    /\ UNCHANGED mdVars
    /\ UNCHANGED tokVars
    /\ UNCHANGED ckrVars

\* the `for` over the files is exhausted: Ok(picked)
SelectReturn ==
    /\ spc = "iter"
    /\ fileIdx > Len(sset)
    /\ spc' = "done"
    /\ UNCHANGED <<sset, fileIdx, sugIdx, state, pick, picked, typed, away>>
    /\ UNCHANGED patchVars
    /\ UNCHANGED ioVars
    /\ UNCHANGED termVars
    /\ UNCHANGED chkVars
    /\ UNCHANGED mdVars
    /\ UNCHANGED tokVars
    /\ UNCHANGED ckrVars

\* user_input reads a key event
KeyPressed ==
    /\ spc = "input"
    /\ \E event \in KeyEvents :
          /\ (IsCustomEntry(state) /\ event.code = "Char"
                  /\ ~(event.ch = "c" /\ event.modifiers = "CONTROL"))
                => \E t \in CustomTexts :
                       IsPrefix(Append(state.custom_replacement, event.ch), t)
          /\ LET r == HandleKey(state, CurrentSuggestion, event)
             IN  /\ state' = r.state
                 /\ pick' = IF r.returned THEN r.pick ELSE pick
                 /\ spc' = IF r.panicked THEN "expect_failed"
                           ELSE IF r.returned THEN "match" ELSE "input"
          /\ typed' = IF IsCustomEntry(state) /\ event.code = "Char"
                           /\ ~(event.ch = "c" /\ event.modifiers = "CONTROL")
                       THEN Append(typed, event.ch) ELSE typed
          /\ away' = (away \/ (IsCustomEntry(state) /\ typed # <<>>
                                 /\ event.code \in {"Up", "Down"}))
          /\ \E okc, ok \in BOOLEAN :
                LET r == HandleKey(state, CurrentSuggestion, event)
                    \* drop(guard); guard = ScopedRaw::new() in custom entry
                    failedc == IsCustomEntry(state) /\ ~okc
                IN  IF r.returned \/ r.panicked
                    THEN /\ raw' = DropGuard(ScopedRawNew(okc))
                         /\ toggleFailed' = (toggleFailed \/ failedc)
                    ELSE /\ raw' = ScopedRawNew(ok)
                         /\ toggleFailed' = (toggleFailed \/ failedc \/ ~ok)
    /\ UNCHANGED <<sset, fileIdx, sugIdx, picked, helpShown, resized>>
    /\ UNCHANGED patchVars
    /\ UNCHANGED ioVars
    /\ UNCHANGED chkVars
    /\ UNCHANGED mdVars
    /\ UNCHANGED tokVars
    /\ UNCHANGED ckrVars

ResizedSelectsNext ==
    /\ spc = "input"
    /\ \E ok \in BOOLEAN : NextIteration(ok)
    /\ state' = SelectNext(state)
    /\ UNCHANGED <<sset, fileIdx, sugIdx, pick, picked, spc, typed, away>>
    /\ UNCHANGED helpShown
    /\ resized' = TRUE
    /\ UNCHANGED patchVars
    /\ UNCHANGED ioVars
    /\ UNCHANGED chkVars
    /\ UNCHANGED mdVars
    /\ UNCHANGED tokVars
    /\ UNCHANGED ckrVars

\* user_input reads Event::Resize: drop(guard); continue
Resized ==
    /\ spc = "input"
    /\ \E ok \in BOOLEAN : NextIteration(ok)
    /\ UNCHANGED <<sset, fileIdx, sugIdx, state, pick, picked, spc, typed, away>>
    /\ UNCHANGED helpShown
    /\ resized' = TRUE
    /\ UNCHANGED patchVars
    /\ UNCHANGED ioVars
    /\ UNCHANGED chkVars
    /\ UNCHANGED mdVars
    /\ UNCHANGED tokVars
    /\ UNCHANGED ckrVars

\* user_input reads an event that is neither a key nor a resize: break, then
\* unreachable!()
OtherEvent ==
    /\ spc = "input"
    /\ spc' = "unreachable"
    /\ LeaveUserInput
    /\ UNCHANGED <<sset, fileIdx, sugIdx, state, pick, picked, typed, away, helpShown, resized>>
    /\ UNCHANGED patchVars
    /\ UNCHANGED ioVars
    /\ UNCHANGED chkVars
    /\ UNCHANGED mdVars
    /\ UNCHANGED tokVars
    /\ UNCHANGED ckrVars

\* print_replacements_list panics on an unwrap of a failed terminal write:
\* the guard of the iteration is dropped while unwinding
RenderPanicked ==
    /\ spc = "input"
    /\ spc' = "render_panic"
    /\ LeaveUserInput
    /\ UNCHANGED <<sset, fileIdx, sugIdx, state, pick, picked, typed, away, helpShown, resized>>
    /\ UNCHANGED patchVars
    /\ UNCHANGED ioVars
    /\ UNCHANGED chkVars
    /\ UNCHANGED mdVars
    /\ UNCHANGED tokVars
    /\ UNCHANGED ckrVars

\* crossterm::event::read() fails: the error leaves user_input and
\* select_interactive through `?`
ReadFailed ==
    /\ spc = "input"
    /\ spc' = "error"
    /\ LeaveUserInput
    /\ UNCHANGED <<sset, fileIdx, sugIdx, state, pick, picked, typed, away, helpShown, resized>>
    /\ UNCHANGED patchVars
    /\ UNCHANGED ioVars
    /\ UNCHANGED chkVars
    /\ UNCHANGED mdVars
    /\ UNCHANGED tokVars
    /\ UNCHANGED ckrVars

\* `while pick == Pick::Help`: print HELP and call user_input again
MatchHelpFreshState ==
    /\ spc = "match"
    /\ pick.kind = "Help"
    /\ spc' = "input"
    /\ pick' = Pick("None")
    /\ helpShown' = TRUE
    /\ UNCHANGED resized
    /\ state' = StateFrom(CurrentSuggestion)
    /\ \E ok1, ok2 \in BOOLEAN : EnterUserInput(ok1, ok2)
    /\ UNCHANGED <<sset, fileIdx, sugIdx, picked, typed, away>>
    /\ UNCHANGED patchVars
    /\ UNCHANGED ioVars
    /\ UNCHANGED chkVars
    /\ UNCHANGED mdVars
    /\ UNCHANGED tokVars
    /\ UNCHANGED ckrVars
MatchHelp ==
    /\ spc = "match"
    /\ pick.kind = "Help"
    /\ spc' = "input"
    /\ pick' = Pick("None")
    /\ helpShown' = TRUE
    /\ UNCHANGED resized
    /\ \E ok1, ok2 \in BOOLEAN : EnterUserInput(ok1, ok2)
    /\ UNCHANGED <<sset, fileIdx, sugIdx, state, picked, typed, away>>
    /\ UNCHANGED patchVars
    /\ UNCHANGED ioVars
    /\ UNCHANGED chkVars
    /\ UNCHANGED mdVars
    /\ UNCHANGED tokVars
    /\ UNCHANGED ckrVars

\* Pick::Quit => return Ok(picked)
MatchQuitAsSkipFile ==
    /\ spc = "match"
    /\ pick.kind = "Quit"
    /\ fileIdx' = fileIdx + 1
    /\ sugIdx' = 0
    /\ spc' = "iter"
    /\ state' = NoState
    /\ pick' = Pick("None")
    /\ typed' = <<>>
    /\ away' = FALSE
    /\ helpShown' = FALSE
    /\ resized' = FALSE
    /\ UNCHANGED <<raw, toggleFailed>>
    /\ UNCHANGED <<sset, picked>>
    /\ UNCHANGED patchVars
    /\ UNCHANGED ioVars
    /\ UNCHANGED chkVars
    /\ UNCHANGED mdVars
    /\ UNCHANGED tokVars
    /\ UNCHANGED ckrVars
MatchQuit ==
    /\ spc = "match"
    /\ pick.kind = "Quit"
    /\ spc' = "done"
    /\ state' = NoState
    /\ pick' = Pick("None")
    /\ typed' = <<>>
    /\ away' = FALSE
    /\ helpShown' = FALSE
    /\ resized' = FALSE
    /\ UNCHANGED <<raw, toggleFailed>>
    /\ UNCHANGED <<sset, fileIdx, sugIdx, picked>>
    /\ UNCHANGED patchVars
    /\ UNCHANGED ioVars
    /\ UNCHANGED chkVars
    /\ UNCHANGED mdVars
    /\ UNCHANGED tokVars
    /\ UNCHANGED ckrVars

\* Pick::SkipFile => break
MatchSkipFileStays ==
    /\ spc = "match"
    /\ pick.kind = "SkipFile"
    /\ spc' = "iter"
    /\ state' = NoState
    /\ pick' = Pick("None")
    /\ typed' = <<>>
    /\ away' = FALSE
    /\ helpShown' = FALSE
    /\ resized' = FALSE
    /\ UNCHANGED <<raw, toggleFailed>>
    /\ UNCHANGED <<sset, fileIdx, sugIdx, picked>>
    /\ UNCHANGED patchVars
    /\ UNCHANGED ioVars
    /\ UNCHANGED chkVars
    /\ UNCHANGED mdVars
    /\ UNCHANGED tokVars
    /\ UNCHANGED ckrVars
MatchSkipFile ==
    /\ spc = "match"
    /\ pick.kind = "SkipFile"
    /\ fileIdx' = fileIdx + 1
    /\ sugIdx' = 0
    /\ spc' = "iter"
    /\ state' = NoState
    /\ pick' = Pick("None")
    /\ typed' = <<>>
    /\ away' = FALSE
    /\ helpShown' = FALSE
    /\ resized' = FALSE
    /\ UNCHANGED <<raw, toggleFailed>>
    /\ UNCHANGED <<sset, picked>>
    /\ UNCHANGED patchVars
    /\ UNCHANGED ioVars
    /\ UNCHANGED chkVars
    /\ UNCHANGED mdVars
    /\ UNCHANGED tokVars
    /\ UNCHANGED ckrVars

\* Pick::Previous => unimplemented!()
MatchPreviousAsSkip ==
    /\ spc = "match"
    /\ pick.kind = "Previous"
    /\ spc' = "iter"
    /\ state' = NoState
    /\ pick' = Pick("None")
    /\ typed' = <<>>
    /\ away' = FALSE
    /\ helpShown' = FALSE
    /\ resized' = FALSE
    /\ UNCHANGED <<raw, toggleFailed>>
    /\ UNCHANGED <<sset, fileIdx, sugIdx, picked>>
    /\ UNCHANGED patchVars
    /\ UNCHANGED ioVars
    /\ UNCHANGED chkVars
    /\ UNCHANGED mdVars
    /\ UNCHANGED tokVars
    /\ UNCHANGED ckrVars
MatchPrevious ==
    /\ spc = "match"
    /\ pick.kind = "Previous"
    /\ spc' = "unimplemented"
    /\ UNCHANGED <<sset, fileIdx, sugIdx, state, pick, picked, typed, away>>
    /\ UNCHANGED patchVars
    /\ UNCHANGED ioVars
    /\ UNCHANGED termVars
    /\ UNCHANGED chkVars
    /\ UNCHANGED mdVars
    /\ UNCHANGED tokVars
    /\ UNCHANGED ckrVars

\* Pick::Replacement(bandaid) => picked.add_bandaid(&path, bandaid)
MatchReplacement ==
    /\ spc = "match"
    /\ pick.kind = "Replacement"
    /\ picked' = AddBandaid(picked, sset[fileIdx].path, pick.bandaid)
    /\ spc' = "iter"
    /\ state' = NoState
    /\ pick' = Pick("None")
    /\ typed' = <<>>
    /\ away' = FALSE
    /\ helpShown' = FALSE
    /\ resized' = FALSE
    /\ UNCHANGED <<raw, toggleFailed>>
    /\ UNCHANGED <<sset, fileIdx, sugIdx>>
    /\ UNCHANGED patchVars
    /\ UNCHANGED ioVars
    /\ UNCHANGED chkVars
    /\ UNCHANGED mdVars
    /\ UNCHANGED tokVars
    /\ UNCHANGED ckrVars

\* _ => continue
MatchOtherRecords ==
    /\ spc = "match"
    /\ pick.kind \notin {"Help", "Quit", "SkipFile", "Previous", "Replacement"}
    /\ picked' = AddBandaid(picked, sset[fileIdx].path, ToBandaid(state, CurrentSuggestion))
    /\ spc' = "iter"
    /\ state' = NoState
    /\ pick' = Pick("None")
    /\ typed' = <<>>
    /\ away' = FALSE
    /\ helpShown' = FALSE
    /\ resized' = FALSE
    /\ UNCHANGED <<raw, toggleFailed>>
    /\ UNCHANGED <<sset, fileIdx, sugIdx>>
    /\ UNCHANGED patchVars
    /\ UNCHANGED ioVars
    /\ UNCHANGED chkVars
    /\ UNCHANGED mdVars
    /\ UNCHANGED tokVars
    /\ UNCHANGED ckrVars
MatchOther ==
    /\ spc = "match"
    /\ pick.kind \notin {"Help", "Quit", "SkipFile", "Previous", "Replacement"}
    /\ spc' = "iter"
    /\ state' = NoState
    /\ pick' = Pick("None")
    /\ typed' = <<>>
    /\ away' = FALSE
    /\ helpShown' = FALSE
    /\ resized' = FALSE
    /\ UNCHANGED <<raw, toggleFailed>>
    /\ UNCHANGED <<sset, fileIdx, sugIdx, picked>>
    /\ UNCHANGED patchVars
    /\ UNCHANGED ioVars
    /\ UNCHANGED chkVars
    /\ UNCHANGED mdVars
    /\ UNCHANGED tokVars
    /\ UNCHANGED ckrVars

SelectInteractive ==
    \/ SkipEmptySuggestion
    \/ PromptSuggestion
    \/ FileCompleted
    \/ SelectReturn
    \/ KeyPressed
    \/ Resized
    \/ OtherEvent
    \/ RenderPanicked
    \/ ReadFailed
    \/ MatchHelp
    \/ MatchQuit
    \/ MatchSkipFile
    \/ MatchPrevious
    \/ MatchReplacement
    \/ MatchOther

\* the steps select_interactive takes by itself, without waiting for the
\* terminal: the loop heads and the arms of `match pick`
ControllerStep ==
    \/ SkipEmptySuggestion
    \/ PromptSuggestion
    \/ FileCompleted
    \/ SelectReturn
    \/ MatchHelp
    \/ MatchQuit
    \/ MatchSkipFile
    \/ MatchPrevious
    \/ MatchReplacement
    \/ MatchOther

\* select_interactive alone, its own steps taken whenever they can be
SpecSession == Init /\ [][SelectInteractive]_vars /\ WF_vars(ControllerStep)

\* ------------------------------------------------------------------------
\* Action::run (Interactive), write_changes_to_disk and correction
\* ------------------------------------------------------------------------
\* BufRead::lines: the newline-separated lines, a last unterminated line included
RECURSIVE ReadLines(_)
ReadLines(bytes) ==
    IF bytes = <<>> THEN <<>>
    ELSE IF \E k \in 1..Len(bytes) : bytes[k] = NL
    THEN LET k == CHOOSE k \in 1..Len(bytes) :
                      bytes[k] = NL /\ \A j \in 1..(k - 1) : bytes[j] # NL
         IN  <<SubSeq(bytes, 1, k - 1)>> \o ReadLines(SubSeq(bytes, k + 1, Len(bytes)))
    ELSE <<bytes>>

\* correct_lines over a whole source: `for (line_number, content) in source`
\* with lines numbered from 1
RECURSIVE CorrectLinesFrom(_, _, _, _, _)
CorrectLinesFrom(bs, i, lines, k, out) ==
    IF k > Len(lines) THEN [out |-> out, nxt |-> i, panicked |-> FALSE]
    ELSE LET r == CorrectLine(bs, i, k, lines[k])
         IN  IF r.panicked THEN [out |-> out \o r.out, nxt |-> r.nxt, panicked |-> TRUE]
             ELSE CorrectLinesFrom(bs, r.nxt, lines, k + 1, out \o r.out)
CorrectLines(bs, lines) == CorrectLinesFrom(bs, 1, lines, 1, <<>>)

\* the entry of userpicked.bandaids under correction
WPath == picked[wIdx].path

\* write_changes_to_disk with userpicked.count() = 0: nothing to apply, Ok(())
WriteNothing ==
    /\ spc = "done"
    /\ wpc = "idle"
    /\ Count(picked) = 0
    /\ wpc' = "ok"
    /\ UNCHANGED <<fs, tmp, writer, opened, wIdx>>
    /\ UNCHANGED ctlVars
    /\ UNCHANGED patchVars
    /\ UNCHANGED termVars
    /\ UNCHANGED chkVars
    /\ UNCHANGED mdVars
    /\ UNCHANGED tokVars
    /\ UNCHANGED ckrVars

\* write_changes_to_disk with userpicked.count() > 0: enter the loop over the entries
WriteBegin ==
    /\ spc = "done"
    /\ wpc = "idle"
    /\ Count(picked) > 0
    /\ wIdx' = 1
    /\ wpc' = "canonicalize"
    /\ UNCHANGED <<fs, tmp, writer, opened>>
    /\ UNCHANGED ctlVars
    /\ UNCHANGED patchVars
    /\ UNCHANGED termVars
    /\ UNCHANGED chkVars
    /\ UNCHANGED mdVars
    /\ UNCHANGED tokVars
    /\ UNCHANGED ckrVars

\* correction: path.canonicalize() succeeds
Canonicalize ==
    /\ wpc = "canonicalize"
    /\ wpc' = "open"
    /\ UNCHANGED <<fs, tmp, writer, opened, wIdx>>
    /\ UNCHANGED ctlVars
    /\ UNCHANGED patchVars
    /\ UNCHANGED termVars
    /\ UNCHANGED chkVars
    /\ UNCHANGED mdVars
    /\ UNCHANGED tokVars
    /\ UNCHANGED ckrVars

\* correction: the original is opened read-only
OpenRead ==
    /\ wpc = "open"
    /\ opened' = opened \cup {WPath}
    /\ wpc' = "create"
    /\ UNCHANGED <<fs, tmp, writer, wIdx>>
    /\ UNCHANGED ctlVars
    /\ UNCHANGED patchVars
    /\ UNCHANGED termVars
    /\ UNCHANGED chkVars
    /\ UNCHANGED mdVars
    /\ UNCHANGED tokVars
    /\ UNCHANGED ckrVars

\* correction: the temporary file is opened with write, truncate, create
OpenTmp ==
    /\ wpc = "create"
    /\ tmp' = [exists |-> TRUE, bytes |-> <<>>]
    /\ writer' = <<>>
    /\ wpc' = "correct"
    /\ UNCHANGED <<fs, opened, wIdx>>
    /\ UNCHANGED ctlVars
    /\ UNCHANGED patchVars
    /\ UNCHANGED termVars
    /\ UNCHANGED chkVars
    /\ UNCHANGED mdVars
    /\ UNCHANGED tokVars
    /\ UNCHANGED ckrVars

\* correction: correct_lines over the lines of the original into the BufWriter
CorrectIntoWriter ==
    /\ wpc = "correct"
    /\ LET r == CorrectLines(picked[wIdx].bandaids, ReadLines(fs[WPath]))
       IN  /\ writer' = r.out
           /\ wpc' = IF r.panicked THEN "panic" ELSE "flush"
    /\ UNCHANGED <<fs, tmp, opened, wIdx>>
    /\ UNCHANGED ctlVars
    /\ UNCHANGED patchVars
    /\ UNCHANGED termVars
    /\ UNCHANGED chkVars
    /\ UNCHANGED mdVars
    /\ UNCHANGED tokVars
    /\ UNCHANGED ckrVars

\* correction: writer.flush() succeeds
Flush ==
    /\ wpc = "flush"
    /\ tmp' = [exists |-> TRUE, bytes |-> writer]
    /\ writer' = <<>>
    /\ wpc' = "rename"
    /\ UNCHANGED <<fs, opened, wIdx>>
    /\ UNCHANGED ctlVars
    /\ UNCHANGED patchVars
    /\ UNCHANGED termVars
    /\ UNCHANGED chkVars
    /\ UNCHANGED mdVars
    /\ UNCHANGED tokVars
    /\ UNCHANGED ckrVars

\* where write_changes_to_disk goes after a correction returned Ok(())
AfterCorrectionFirstOnly(i) == "ok"
AfterCorrection(i) == IF i < Len(picked) THEN "canonicalize" ELSE "ok"

\* correction: fs::rename(tmp, path) succeeds, Ok(()); the loop of
\* write_changes_to_disk goes to the next entry or returns Ok(())
RenameEarly ==
    /\ wpc \in {"correct", "flush", "rename"}
    /\ fs' = [fs EXCEPT ![WPath] = tmp.bytes]
    /\ tmp' = NoFile
    /\ wIdx' = wIdx + 1
    /\ wpc' = AfterCorrection(wIdx)
    /\ UNCHANGED <<writer, opened>>
    /\ UNCHANGED ctlVars
    /\ UNCHANGED patchVars
    /\ UNCHANGED termVars
    /\ UNCHANGED chkVars
    /\ UNCHANGED mdVars
    /\ UNCHANGED tokVars
    /\ UNCHANGED ckrVars
Rename ==
    /\ wpc = "rename"
    /\ fs' = [fs EXCEPT ![WPath] = tmp.bytes]
    /\ tmp' = NoFile
    /\ wIdx' = wIdx + 1
    /\ wpc' = AfterCorrection(wIdx)
    /\ UNCHANGED <<writer, opened>>
    /\ UNCHANGED ctlVars
    /\ UNCHANGED patchVars
    /\ UNCHANGED termVars
    /\ UNCHANGED chkVars
    /\ UNCHANGED mdVars
    /\ UNCHANGED tokVars
    /\ UNCHANGED ckrVars

\* where an I/O error of a correction leaves write_changes_to_disk: the `?`
\* returns it at once
AfterFailureContinue(i) == AfterCorrection(i)
AfterFailure(i) == "err"

\* correction: canonicalize, open, a write, the flush or the rename fails and
\* the error is returned
IoFailure ==
    /\ wpc \in {"canonicalize", "open", "create", "correct", "flush", "rename"}
    /\ wpc' = AfterFailure(wIdx)
    /\ wIdx' = IF AfterFailure(wIdx) = "err" THEN wIdx ELSE wIdx + 1
    /\ UNCHANGED <<fs, tmp, writer, opened>>
    /\ UNCHANGED ctlVars
    /\ UNCHANGED patchVars
    /\ UNCHANGED termVars
    /\ UNCHANGED chkVars
    /\ UNCHANGED mdVars
    /\ UNCHANGED tokVars
    /\ UNCHANGED ckrVars

WriteChangesToDisk ==
    \/ WriteNothing
    \/ WriteBegin
    \/ Canonicalize
    \/ OpenRead
    \/ OpenTmp
    \/ CorrectIntoWriter
    \/ Flush
    \/ Rename
    \/ IoFailure

Next == SelectInteractive \/ WriteChangesToDisk

Spec == Init /\ [][Next]_vars

\* Inputs of correct_lines

PatchInit ==
    /\ bandaids \in SeqsUpTo(BandAids, MaxBandaids)
    /\ source \in UNION {[1..k -> LineTexts] : k \in 1..MaxLines}
    /\ sink = <<>>
    /\ nxt = 1
    /\ lineno = 0
    /\ cpc = "run"
    /\ CtlIdle
    /\ IoIdle
    /\ TermIdle
    /\ ChkIdle
    /\ MdIdle
    /\ TokIdle
    /\ CkrIdle

\* the loop body on a line with no pending BandAid, or one for another line
ProcessLineUnchanged ==
    /\ cpc = "run"
    /\ lineno < Len(source)
    /\ IF nxt > Len(bandaids) THEN TRUE
       ELSE ~CoversLine(bandaids[nxt].span, lineno + 1)
    /\ LET r == CorrectLine(bandaids, nxt, lineno + 1, source[lineno + 1])
       IN  /\ sink' = sink \o r.out
           /\ nxt' = r.nxt
    /\ lineno' = lineno + 1
    /\ UNCHANGED <<bandaids, source, cpc>>
    /\ UNCHANGED ctlVars
    /\ UNCHANGED ioVars
    /\ UNCHANGED termVars
    /\ UNCHANGED chkVars
    /\ UNCHANGED mdVars
    /\ UNCHANGED tokVars
    /\ UNCHANGED ckrVars

\* the loop body on a line the pending BandAid targets
ProcessLineApply ==
    /\ cpc = "run"
    /\ lineno < Len(source)
    /\ nxt <= Len(bandaids)
    /\ CoversLine(bandaids[nxt].span, lineno + 1)
    /\ LET r == CorrectLine(bandaids, nxt, lineno + 1, source[lineno + 1])
       IN  /\ sink' = sink \o r.out
           /\ nxt' = r.nxt
           /\ cpc' = IF r.panicked THEN "panic" ELSE cpc
    /\ lineno' = lineno + 1
    /\ UNCHANGED <<bandaids, source>>
    /\ UNCHANGED ctlVars
    /\ UNCHANGED ioVars
    /\ UNCHANGED termVars
    /\ UNCHANGED chkVars
    /\ UNCHANGED mdVars
    /\ UNCHANGED tokVars
    /\ UNCHANGED ckrVars

\* the source iterator is exhausted: Ok(())
PatchFinish ==
    /\ cpc = "run"
    /\ lineno = Len(source)
    /\ cpc' = "done"
    /\ UNCHANGED <<bandaids, source, sink, nxt, lineno>>
    /\ UNCHANGED ctlVars
    /\ UNCHANGED ioVars
    /\ UNCHANGED termVars
    /\ UNCHANGED chkVars
    /\ UNCHANGED mdVars
    /\ UNCHANGED tokVars
    /\ UNCHANGED ckrVars

PatchNext == ProcessLineUnchanged \/ ProcessLineApply \/ PatchFinish

SpecPatch == PatchInit /\ [][PatchNext]_vars

\* ------------------------------------------------------------------------
\* Action::check
\* ------------------------------------------------------------------------
CheckInit ==
    /\ sset \in SuggestionSets
    /\ fileIdx = 0
    /\ sugIdx = 0
    /\ state = NoState
    /\ pick = Pick("None")
    /\ picked = <<>>
    /\ spc = "idle"
    /\ typed = <<>>
    /\ away = FALSE
    /\ PatchIdle
    /\ IoIdle
    /\ TermIdle
    /\ cIdx = 1
    /\ count = 0
    /\ cresult = [pc |-> "run", count |-> 0]
    /\ MdIdle
    /\ TokIdle
    /\ CkrIdle

\* only the suggestions that offer a candidate are counted
LenWithCandidates(suggestions) ==
    Len(SelectSeq(suggestions, LAMBDA sg : sg.replacements # <<>>))
\* suggestions.len()
SuggestionsLen(suggestions) == Len(suggestions)

\* one round of `for (_path, suggestions)`: count += suggestions.len(), then
\* every suggestion of the file is printed
CheckFile ==
    /\ cresult.pc = "run"
    /\ cIdx <= Len(sset)
    /\ count' = count + SuggestionsLen(sset[cIdx].suggestions)
    /\ cIdx' = cIdx + 1
    /\ UNCHANGED cresult
    /\ UNCHANGED <<ctlVars, patchVars, ioVars, termVars, mdVars, tokVars, ckrVars>>

\* if count > 0 { Err("Found {count} potential spelling mistakes") } else { Ok(()) }
CheckReturn ==
    /\ cresult.pc = "run"
    /\ cIdx > Len(sset)
    /\ cresult' = IF count > 0 THEN [pc |-> "err", count |-> count]
                               ELSE [pc |-> "ok", count |-> 0]
    /\ UNCHANGED <<cIdx, count>>
    /\ UNCHANGED <<ctlVars, patchVars, ioVars, termVars, mdVars, tokVars, ckrVars>>

CheckNext == CheckFile \/ CheckReturn

SpecCheck == CheckInit /\ [][CheckNext]_vars

\* ------------------------------------------------------------------------
\* PlainOverlay (markdown.rs)
\* ------------------------------------------------------------------------
MaxItems == 2

\* usize arithmetic wraps at 2^64; the model wraps at a modulus far above
\* every offset it reaches
USizeModulus == 65536

Range(a, b) == [start |-> a, end |-> b]
Ev(ev, tag, s, a, b) == [ev |-> ev, tag |-> tag, s |-> s, offset |-> Range(a, b)]

\* Markdown items and the events Parser::into_offset_iter yields for them,
\* with offsets relative to the start of the item. A Start or End event
\* carries the range of its whole element, a Text event the range of the
\* text run, an End(Link | Image) event the title of the element.
ItemWord ==
    [raw |-> <<"a", "b", NL, NL>>,
     events |-> <<Ev("Start", "Paragraph", <<>>, 0, 3),
                  Ev("Text", "", <<"a", "b">>, 0, 2),
                  Ev("End", "Paragraph", <<>>, 0, 3)>>]
ItemHeading ==
    [raw |-> <<"#", " ", "c", NL>>,
     events |-> <<Ev("Start", "Heading", <<>>, 0, 4),
                  Ev("Text", "", <<"c">>, 2, 3),
                  Ev("End", "Heading", <<>>, 0, 4)>>]
ItemEmphasis ==
    [raw |-> <<"*", "d", "*", NL, NL>>,
     events |-> <<Ev("Start", "Paragraph", <<>>, 0, 4),
                  Ev("Start", "Emphasis", <<>>, 0, 3),
                  Ev("Text", "", <<"d">>, 1, 2),
                  Ev("End", "Emphasis", <<>>, 0, 3),
                  Ev("End", "Paragraph", <<>>, 0, 4)>>]
ItemLinkTitle ==
    [raw |-> <<"[", "e", "]", "(", "u", " ", "'", "t", "'", ")", NL, NL>>,
     events |-> <<Ev("Start", "Paragraph", <<>>, 0, 11),
                  Ev("Start", "Link", <<"t">>, 0, 10),
                  Ev("Text", "", <<"e">>, 1, 2),
                  Ev("End", "Link", <<"t">>, 0, 10),
                  Ev("End", "Paragraph", <<>>, 0, 11)>>]
ItemLinkTitleNL ==
    [raw |-> <<"[", "e", "]", "(", "u", " ", "'", "t", NL, "'", ")", NL, NL>>,
     events |-> <<Ev("Start", "Paragraph", <<>>, 0, 12),
                  Ev("Start", "Link", <<"t", NL>>, 0, 11),
                  Ev("Text", "", <<"e">>, 1, 2),
                  Ev("End", "Link", <<"t", NL>>, 0, 11),
                  Ev("End", "Paragraph", <<>>, 0, 12)>>]
ItemLink ==
    [raw |-> <<"[", "e", "]", "(", "u", ")", NL, NL>>,
     events |-> <<Ev("Start", "Paragraph", <<>>, 0, 7),
                  Ev("Start", "Link", <<>>, 0, 6),
                  Ev("Text", "", <<"e">>, 1, 2),
                  Ev("End", "Link", <<>>, 0, 6),
                  Ev("End", "Paragraph", <<>>, 0, 7)>>]
ItemEmptyLink ==
    [raw |-> <<"[", "]", "(", "u", ")", NL, NL>>,
     events |-> <<Ev("Start", "Paragraph", <<>>, 0, 6),
                  Ev("Start", "Link", <<>>, 0, 5),
                  Ev("End", "Link", <<>>, 0, 5),
                  Ev("End", "Paragraph", <<>>, 0, 6)>>]
ItemImage ==
    [raw |-> <<"!", "[", "e", "]", "(", "u", " ", "'", "t", "'", ")", NL, NL>>,
     events |-> <<Ev("Start", "Paragraph", <<>>, 0, 12),
                  Ev("Start", "Image", <<"t">>, 0, 11),
                  Ev("Text", "", <<"e">>, 2, 3),
                  Ev("End", "Image", <<"t">>, 0, 11),
                  Ev("End", "Paragraph", <<>>, 0, 12)>>]
ItemSoftBreak ==
    [raw |-> <<"a", NL, "b", NL, NL>>,
     events |-> <<Ev("Start", "Paragraph", <<>>, 0, 4),
                  Ev("Text", "", <<"a">>, 0, 1),
                  Ev("SoftBreak", "", <<>>, 1, 2),
                  Ev("Text", "", <<"b">>, 2, 3),
                  Ev("End", "Paragraph", <<>>, 0, 4)>>]
ItemHardBreak ==
    [raw |-> <<"a", " ", " ", NL, "b", NL, NL>>,
     events |-> <<Ev("Start", "Paragraph", <<>>, 0, 6),
                  Ev("Text", "", <<"a">>, 0, 1),
                  Ev("HardBreak", "", <<>>, 1, 4),
                  Ev("Text", "", <<"b">>, 4, 5),
                  Ev("End", "Paragraph", <<>>, 0, 6)>>]
ItemRule ==
    [raw |-> <<"-", "-", "-", NL>>,
     events |-> <<Ev("Rule", "", <<>>, 0, 3)>>]
ItemCodeBlock ==
    [raw |-> <<"~", "~", "~", NL, "x", NL, "~", "~", "~", NL>>,
     events |-> <<Ev("Start", "CodeBlock", <<>>, 0, 9),
                  Ev("Text", "", <<"x", NL>>, 4, 6),
                  Ev("End", "CodeBlock", <<>>, 0, 9)>>]
ItemHtml ==
    [raw |-> <<"<", "i", ">", NL, NL>>,
     events |-> <<Ev("Start", "Paragraph", <<>>, 0, 4),
                  Ev("Html", "", <<"<", "i", ">">>, 0, 3),
                  Ev("End", "Paragraph", <<>>, 0, 4)>>]

Items ==
    {ItemWord, ItemHeading, ItemEmphasis, ItemLinkTitle, ItemLinkTitleNL, ItemLink,
     ItemEmptyLink, ItemImage,
     ItemSoftBreak, ItemHardBreak, ItemRule, ItemCodeBlock, ItemHtml}

\* the events of an item at byte offset base of the document
ShiftEvents(evs, base) ==
    [k \in 1..Len(evs) |->
        [evs[k] EXCEPT !.offset = Range(evs[k].offset.start + base,
                                        evs[k].offset.end + base)]]

\* a document of items: its text and its event stream
RECURSIVE Assemble(_, _, _, _)
Assemble(items, k, text, evs) ==
    IF k > Len(items) THEN [markdown |-> text, events |-> evs]
    ELSE Assemble(items, k + 1, text \o items[k].raw,
                  evs \o ShiftEvents(items[k].events, Len(text)))

Documents == {Assemble(items, 1, <<>>, <<>>) : items \in SeqsUpTo(Items, MaxItems)}

\* IndexMap::insert: a present key keeps its position and gets the new value
MapInsert(m, key, value) ==
    IF \E i \in 1..Len(m) : m[i].plain = key
    THEN [i \in 1..Len(m) |-> IF m[i].plain = key THEN [m[i] EXCEPT !.raw = value] ELSE m[i]]
    ELSE Append(m, [plain |-> key, raw |-> value])

\* PlainOverlay::track
Track(s, md, pl, mp) ==
    [plain |-> pl \o s,
     mapping |-> MapInsert(mp, Range(Len(pl), Len(pl) + Len(s)), md)]

\* PlainOverlay::newlines
Newlines(pl, n) == pl \o [i \in 1..n |-> NL]

RECURSIVE TrailingNewlines(_)
TrailingNewlines(pl) ==
    IF pl # <<>> /\ pl[Len(pl)] = NL
    THEN 1 + TrailingNewlines(SubSeq(pl, 1, Len(pl) - 1))
    ELSE 0

PostProcessNoClamp(pl, mp) ==
    [plain |-> SubSeq(pl, 1, Len(pl) - TrailingNewlines(pl)),
     mapping |-> mp,
     panicked |-> FALSE]

\* the post-processing of extract_plain_with_mapping: truncate the trailing
\* newlines, pop the last entry, clamp its plain end, assert, insert it again
PostProcess(pl, mp) ==
    LET truncated == SubSeq(pl, 1, Len(pl) - TrailingNewlines(pl))
    IN  IF mp = <<>>
        THEN [plain |-> truncated, mapping |-> mp, panicked |-> FALSE]
        ELSE LET last == mp[Len(mp)]
                 rest == SubSeq(mp, 1, Len(mp) - 1)
                 clamped == IF last.plain.end > Len(truncated)
                            THEN [last.plain EXCEPT !.end = Len(truncated)]
                            ELSE last.plain
             IN  IF clamped.start <= clamped.end
                 THEN [plain |-> truncated,
                       mapping |-> MapInsert(rest, clamped, last.raw),
                       panicked |-> FALSE]
                 ELSE [plain |-> truncated, mapping |-> rest, panicked |-> TRUE]

\* the filter of the test range_test: the ranges touch or overlap
SelectedOverlapping(p, q) == p.start <= q.end /\ q.start <= p.end
\* the filter of linear_range_to_spans: the query lies inside the entry
Selected(p, q) == p.start <= q.start /\ q.end <= p.end

KeepRawEnd(a, b) == a

Min(a, b) == IF a < b THEN a ELSE b

\* the mapping built by the test range_test
RangeTestMapping ==
    <<[plain |-> Range(0, 2), raw |-> Range(1, 3)],
      [plain |-> Range(3, 4), raw |-> Range(7, 8)],
      [plain |-> Range(5, 12), raw |-> Range(11, 18)]>>

\* the fold of linear_range_to_spans from entry k on; acc holds the raw
\* ranges handed to the resolver of the LiteralSet
RECURSIVE FoldSpans(_, _, _, _, _)
FoldSpans(mp, k, q, checks, acc) ==
    IF k > Len(mp) THEN [spans |-> acc, panicked |-> FALSE]
    ELSE IF ~Selected(mp[k].plain, q) THEN FoldSpans(mp, k + 1, q, checks, acc)
    ELSE LET p == mp[k].plain
             r == mp[k].raw
             offset == (r.start - p.start + USizeModulus) % USizeModulus
             endDelta == (r.end - p.end + USizeModulus) % USizeModulus
             start == q.start + offset
             extracted == Range(start % USizeModulus,
                                Min(r.end, (q.end + offset) % USizeModulus))
         IN  IF checks /\ (r.start < p.start \/ r.end < p.end)
             THEN [spans |-> acc, panicked |-> TRUE]
             ELSE IF endDelta # offset
             THEN [spans |-> acc, panicked |-> TRUE]
             ELSE IF checks /\ (start >= USizeModulus \/ q.end + offset >= USizeModulus)
             THEN [spans |-> acc, panicked |-> TRUE]
             ELSE IF extracted.start < extracted.end
             THEN FoldSpans(mp, k + 1, q, checks, Append(acc, extracted))
             ELSE FoldSpans(mp, k + 1, q, checks, acc)

LinearRangeToSpans(mp, q, checks) == FoldSpans(mp, 1, q, checks, <<>>)

MdInit ==
    /\ \E doc \in Documents :
          /\ markdown = doc.markdown
          /\ events = doc.events
    /\ evIdx = 1
    /\ plain = <<>>
    /\ mapping = <<>>
    /\ code_block = FALSE
    /\ synthetic = {}
    /\ mpc = "run"
    /\ plain_range = NoRange
    /\ resolved = NoSpans
    /\ overflowChecks \in BOOLEAN
    /\ CtlIdle
    /\ PatchIdle
    /\ IoIdle
    /\ TermIdle
    /\ ChkIdle
    /\ TokIdle
    /\ CkrIdle

MdFrame ==
    /\ UNCHANGED <<markdown, events, plain_range, resolved, overflowChecks>>
    /\ UNCHANGED <<ctlVars, patchVars, ioVars, termVars, chkVars, tokVars, ckrVars>>

\* Event::Start(tag): a code block sets code_block, other tags do nothing
EvStart ==
    /\ mpc = "run"
    /\ evIdx <= Len(events)
    /\ events[evIdx].ev = "Start"
    /\ code_block' = IF events[evIdx].tag = "CodeBlock" THEN TRUE ELSE code_block
    /\ evIdx' = evIdx + 1
    /\ UNCHANGED <<plain, mapping, synthetic, mpc>>
    /\ MdFrame

\* Event::End(Tag::Link | Tag::Image): track(&title, offset, ..)
EvEndTitle ==
    /\ mpc = "run"
    /\ evIdx <= Len(events)
    /\ events[evIdx].ev = "End"
    /\ events[evIdx].tag \in {"Link", "Image"}
    /\ LET t == Track(events[evIdx].s, events[evIdx].offset, plain, mapping)
       IN  /\ plain' = t.plain
           /\ mapping' = t.mapping
    /\ evIdx' = evIdx + 1
    /\ UNCHANGED <<code_block, synthetic, mpc>>
    /\ MdFrame

\* Event::End(Tag::Heading | Tag::Paragraph): newlines(&mut plain, 2)
EvEndBlock ==
    /\ mpc = "run"
    /\ evIdx <= Len(events)
    /\ events[evIdx].ev = "End"
    /\ events[evIdx].tag \in {"Heading", "Paragraph"}
    /\ plain' = Newlines(plain, 2)
    /\ synthetic' = synthetic \cup (Len(plain)..(Len(plain) + 1))
    /\ evIdx' = evIdx + 1
    /\ UNCHANGED <<mapping, code_block, mpc>>
    /\ MdFrame

\* Event::End(tag) for a code block (code_block = false) or any other tag
EvEndOther ==
    /\ mpc = "run"
    /\ evIdx <= Len(events)
    /\ events[evIdx].ev = "End"
    /\ events[evIdx].tag \notin {"Link", "Image", "Heading", "Paragraph"}
    /\ code_block' = IF events[evIdx].tag = "CodeBlock" THEN FALSE ELSE code_block
    /\ evIdx' = evIdx + 1
    /\ UNCHANGED <<plain, mapping, synthetic, mpc>>
    /\ MdFrame

\* Event::Text(s): tracked unless inside a code block
EvText ==
    /\ mpc = "run"
    /\ evIdx <= Len(events)
    /\ events[evIdx].ev = "Text"
    /\ LET t == IF code_block THEN [plain |-> plain, mapping |-> mapping]
                ELSE Track(events[evIdx].s, events[evIdx].offset, plain, mapping)
       IN  /\ plain' = t.plain
           /\ mapping' = t.mapping
    /\ evIdx' = evIdx + 1
    /\ UNCHANGED <<code_block, synthetic, mpc>>
    /\ MdFrame

\* Event::Code, Html, FootnoteReference, TaskListMarker: dropped
EvDropped ==
    /\ mpc = "run"
    /\ evIdx <= Len(events)
    /\ events[evIdx].ev \in {"Code", "Html", "FootnoteReference", "TaskListMarker"}
    /\ evIdx' = evIdx + 1
    /\ UNCHANGED <<plain, mapping, code_block, synthetic, mpc>>
    /\ MdFrame

\* Event::SoftBreak and Event::Rule: one newline; Event::HardBreak: two
EvBreak ==
    /\ mpc = "run"
    /\ evIdx <= Len(events)
    /\ events[evIdx].ev \in {"SoftBreak", "HardBreak", "Rule"}
    /\ LET n == IF events[evIdx].ev = "HardBreak" THEN 2 ELSE 1
       IN  /\ plain' = Newlines(plain, n)
           /\ synthetic' = synthetic \cup (Len(plain)..(Len(plain) + n - 1))
    /\ evIdx' = evIdx + 1
    /\ UNCHANGED <<mapping, code_block, mpc>>
    /\ MdFrame

\* the event stream is exhausted: post-processing and return
ExtractReturn ==
    /\ mpc = "run"
    /\ evIdx > Len(events)
    /\ LET r == PostProcess(plain, mapping)
       IN  /\ plain' = r.plain
           /\ mapping' = r.mapping
           /\ mpc' = IF r.panicked THEN "panic" ELSE "done"
           /\ synthetic' = {i \in synthetic : i < Len(r.plain)}
    /\ UNCHANGED <<evIdx, code_block>>
    /\ MdFrame

\* PlainOverlay::linear_range_to_spans for a range of the plain buffer
Resolve ==
    /\ mpc = "done"
    /\ \E a \in 0..Len(plain) : \E b \in a..Len(plain) :
          /\ plain_range' = Range(a, b)
          /\ resolved' = LinearRangeToSpans(mapping, Range(a, b), overflowChecks)
    /\ mpc' = "resolved"
    /\ UNCHANGED <<markdown, events, evIdx, plain, mapping, code_block, synthetic,
                   overflowChecks>>
    /\ UNCHANGED <<ctlVars, patchVars, ioVars, termVars, chkVars, tokVars, ckrVars>>

MdNext ==
    \/ EvStart
    \/ EvEndTitle
    \/ EvEndBlock
    \/ EvEndOther
    \/ EvText
    \/ EvDropped
    \/ EvBreak
    \/ ExtractReturn
    \/ Resolve

SpecMarkdown == MdInit /\ [][MdNext]_vars

\* ------------------------------------------------------------------------
\* tokenize (checker/mod.rs)
\* ------------------------------------------------------------------------
\* A str is a sequence of scalar characters; each stands for a class of
\* characters with the same UTF-8 length and the same is_ignore_char answer:
\* "a" an ASCII letter, "," a blacklist character, " " an ASCII space,
\* "e2" a two-byte letter (U+00E9), "s3" a three-byte whitespace (U+2003).
MaxChars == 4
Chars == {"a", ",", " ", "e2", "s3"}
Strs == SeqsUpTo(Chars, MaxChars)

\* char::len_utf8
ByteLen(c) == IF c = "e2" THEN 2 ELSE IF c = "s3" THEN 3 ELSE 1

\* char::is_whitespace
IsWhitespace(c) == c \in {" ", "s3"}

\* the characters of `blacklist` among Chars
Blacklist == {","}

IgnoreOnlyWhitespace(c) == IsWhitespace(c)

\* the closure is_ignore_char
IsIgnoreChar(c) == IsWhitespace(c) \/ c \in Blacklist

\* the byte index s.char_indices() reports for the k-th character (k = 1..);
\* for k = Len(s) + 1 it is s.len()
RECURSIVE CharIndex(_, _)
CharIndex(s, k) ==
    IF k <= 1 THEN 0 ELSE CharIndex(s, k - 1) + ByteLen(s[k - 1])

StrLen(s) == CharIndex(s, Len(s) + 1)

TokInit ==
    /\ input \in Strs
    /\ cpos = 0
    /\ started = FALSE
    /\ linear_start = 0
    /\ bananasplit = <<>>
    /\ tpc = "run"
    /\ CtlIdle
    /\ PatchIdle
    /\ IoIdle
    /\ TermIdle
    /\ ChkIdle
    /\ MdIdle
    /\ CkrIdle

TokFrame == UNCHANGED <<ctlVars, patchVars, ioVars, termVars, chkVars, mdVars, ckrVars>>

\* loop body, is_ignore_char(c): linear_end = c_idx; push if started
TokIgnoreChar ==
    /\ tpc = "run"
    /\ cpos < Len(input)
    /\ IsIgnoreChar(input[cpos + 1])
    /\ LET linear_end == CharIndex(input, cpos + 1) IN
         bananasplit' = IF started
                          THEN Append(bananasplit, Range(linear_start, linear_end))
                          ELSE bananasplit
    /\ started' = FALSE
    /\ cpos' = cpos + 1
    /\ UNCHANGED <<input, linear_start, tpc>>
    /\ TokFrame

\* loop body, else branch: a token starts at c_idx unless one is in progress
TokWordChar ==
    /\ tpc = "run"
    /\ cpos < Len(input)
    /\ ~IsIgnoreChar(input[cpos + 1])
    /\ linear_start' = IF started THEN linear_start ELSE CharIndex(input, cpos + 1)
    /\ started' = TRUE
    /\ cpos' = cpos + 1
    /\ UNCHANGED <<input, bananasplit, tpc>>
    /\ TokFrame

\* after the loop: if started, (idx, _) = s.char_indices().next_back() and
\* linear_end = idx + 1; an empty s only logs a warning
TokFinish ==
    /\ tpc = "run"
    /\ cpos = Len(input)
    /\ bananasplit' =
          IF started /\ Len(input) > 0
            THEN LET idx == CharIndex(input, Len(input))
                     linear_end == idx + 1
                 IN  Append(bananasplit, Range(linear_start, linear_end))
            ELSE bananasplit
    /\ tpc' = "done"
    /\ UNCHANGED <<input, cpos, started, linear_start>>
    /\ TokFrame

TokNext ==
    \/ TokIgnoreChar
    \/ TokWordChar
    \/ TokFinish

SpecTokenize == TokInit /\ [][TokNext]_vars

\* ------------------------------------------------------------------------
\* checker::check (checker/mod.rs)
\* ------------------------------------------------------------------------
Detectors == {"LanguageTool", "Hunspell"}

\* a SuggestionSet: per path the suggestions in the order they were added
Paths == 1..MaxFiles
SuggestionSetNew == [p \in Paths |-> <<>>]

\* what a backend finds for a path: nothing or one suggestion of its own
Found(d) == {<<>>, <<d>>}
BackendSets(d) == [Paths -> Found(d)]

\* the Result of a backend's check()
BackendResults(d) ==
    {[ok |-> TRUE, set |-> b] : b \in BackendSets(d)}
        \cup {[ok |-> FALSE, set |-> SuggestionSetNew]}

JoinInFront(a, b) == [p \in Paths |-> b[p] \o a[p]]

\* SuggestionSet::join: per path, the other set's suggestions are added after
\* the ones already held
Join(a, b) == [p \in Paths |-> a[p] \o b[p]]

\* Config::is_enabled for a detector compiled into the build
IsEnabled(d) == d \in config.features /\ d \in config.enabled

CkrInit ==
    /\ config \in [features : SUBSET Detectors, enabled : SUBSET Detectors]
    /\ outcome \in {[LanguageTool |-> l, Hunspell |-> h] :
                        l \in BackendResults("LanguageTool"),
                        h \in BackendResults("Hunspell")}
    /\ collective = SuggestionSetNew
    /\ kpc = "languagetool"
    /\ CtlIdle
    /\ PatchIdle
    /\ IoIdle
    /\ TermIdle
    /\ ChkIdle
    /\ MdIdle
    /\ TokIdle

CkrFrame == UNCHANGED <<ctlVars, patchVars, ioVars, termVars, chkVars, mdVars, tokVars>>

\* the block under cfg(feature = "languagetool")
RunLanguageTool ==
    /\ kpc = "languagetool"
    /\ collective' = IF IsEnabled("LanguageTool") /\ outcome.LanguageTool.ok
                       THEN Join(collective, outcome.LanguageTool.set)
                       ELSE collective
    /\ kpc' = "hunspell"
    /\ UNCHANGED <<config, outcome>>
    /\ CkrFrame

\* the block under cfg(feature = "hunspell")
RunHunspell ==
    /\ kpc = "hunspell"
    /\ collective' = IF IsEnabled("Hunspell") /\ outcome.Hunspell.ok
                       THEN Join(collective, outcome.Hunspell.set)
                       ELSE collective
    /\ kpc' = "ok"
    /\ UNCHANGED <<config, outcome>>
    /\ CkrFrame

CkrNext ==
    \/ RunLanguageTool
    \/ RunHunspell

SpecChecker == CkrInit /\ [][CkrNext]_vars

\* ------------------------------------------------------------------------
\* Properties of correct_lines (checked under SpecPatch)
\* ------------------------------------------------------------------------
HasNL(s) == \E k \in 1..Len(s) : s[k] = NL
FirstNL(s) == CHOOSE k \in 1..Len(s) : s[k] = NL /\ \A j \in 1..(k - 1) : s[j] # NL

\* the newline-terminated lines of the sink, each without its newline
RECURSIVE SplitLines(_)
SplitLines(s) ==
    IF ~HasNL(s) THEN <<>>
    ELSE <<SubSeq(s, 1, FirstNL(s) - 1)>> \o SplitLines(SubSeq(s, FirstNL(s) + 1, Len(s)))

CountNL(s) == Cardinality({k \in 1..Len(s) : s[k] = NL})

RECURSIVE SumRemoved(_, _)
SumRemoved(bs, k) ==
    IF k > Len(bs) THEN 0
    ELSE (bs[k].span.end - bs[k].span.start) + SumRemoved(bs, k + 1)

RECURSIVE SumReplaced(_, _)
SumReplaced(bs, k) ==
    IF k > Len(bs) THEN 0 ELSE Len(bs[k].replacement) + SumReplaced(bs, k + 1)

\* L[0..b1.start] + b1.replacement + L[b1.end..b2.start] + ... + bk.replacement + L[bk.end..]
RECURSIVE ExpectedFrom(_, _, _, _)
ExpectedFrom(L, bs, k, prev) ==
    IF k > Len(bs) THEN Slice(L, prev, Len(L))
    ELSE Slice(L, prev, bs[k].span.start) \o bs[k].replacement
             \o ExpectedFrom(L, bs, k + 1, bs[k].span.end)

\* all BandAids target line l, ascending, non-overlapping, inside the line
SortedOnLine(l) ==
    /\ bandaids # <<>>
    /\ l \in 1..Len(source)
    /\ \A i \in 1..Len(bandaids) :
          /\ bandaids[i].span.line = l
          /\ bandaids[i].span.end <= Len(source[l])
    /\ \A i, j \in 1..Len(bandaids) :
          i < j => bandaids[i].span.end <= bandaids[j].span.start

\* every BandAid that targets an input line has its columns inside that line
ColumnsInsideLines ==
    \A i \in 1..Len(bandaids) :
        bandaids[i].span.line <= Len(source)
            => bandaids[i].span.end <= Len(source[bandaids[i].span.line])

Targeted(l) == \E i \in 1..Len(bandaids) : bandaids[i].span.line = l

\* C1: with all BandAids on one line l, sorted ascending and non-overlapping
\* inside the line, correct_lines never panics and the line it emits for l is
\* L[0..b1.start] + b1.replacement + ... + bk.replacement + L[bk.end..] plus one
\* newline, every slice taken at the original columns; its length is
\* len(L) - sum(removed) + sum(replacement lengths).
C1_OriginalColumns ==
    \A l \in 1..Len(source) :
        SortedOnLine(l) =>
            /\ cpc # "panic"
            /\ lineno >= l =>
                  /\ Len(SplitLines(sink)) = lineno
                  /\ SplitLines(sink)[l] = ExpectedFrom(source[l], bandaids, 1, 0)
                  /\ Len(SplitLines(sink)[l]) =
                        Len(source[l]) - SumRemoved(bandaids, 1) + SumReplaced(bandaids, 1)

\* two BandAids on one line, the first changing the line's length, both applied
C1_Witness ==
    /\ cpc = "done"
    /\ Len(bandaids) = 2
    /\ SortedOnLine(2)
    /\ bandaids[1].span.start = 0 /\ bandaids[1].span.end = 1
    /\ bandaids[1].replacement = <<"x", "y">>
    /\ bandaids[2].span.start = 2
    /\ nxt = 3

\* C2: with newline-free replacements and columns inside the lines (sorted or
\* not, overlapping or not), correct_lines never panics and has emitted exactly
\* one newline-terminated line per consumed input line; at Ok(()) the output
\* line count is the input line count.
C2_LineCount ==
    ColumnsInsideLines =>
        /\ cpc # "panic"
        /\ CountNL(sink) = lineno
        /\ Len(SplitLines(sink)) = lineno
        /\ sink # <<>> => sink[Len(sink)] = NL
        /\ cpc = "done" => CountNL(sink) = Len(source)

\* two overlapping BandAids in descending order on one line of a 2-line input
C2_Witness ==
    /\ cpc = "done"
    /\ ColumnsInsideLines
    /\ Len(source) >= 2
    /\ Len(bandaids) = 2
    /\ bandaids[1].span.line = 1 /\ bandaids[2].span.line = 1
    /\ bandaids[1].span.start > bandaids[2].span.start
    /\ bandaids[2].span.end > bandaids[1].span.start
    /\ nxt = 3

RECURSIVE JoinLines(_, _)
JoinLines(src, k) ==
    IF k > Len(src) THEN <<>> ELSE src[k] \o <<NL>> \o JoinLines(src, k + 1)

\* C3: every emitted line whose number no BandAid targets is the input line,
\* byte for byte, followed by one newline; with zero BandAids the whole output
\* is the input lines, each newline-terminated.
C3_UntouchedLines ==
    /\ \A l \in 1..Len(SplitLines(sink)) :
          ~Targeted(l) => SplitLines(sink)[l] = source[l]
    /\ (cpc = "done" /\ \A l \in 1..Len(source) : ~Targeted(l)) =>
          sink = JoinLines(source, 1)

\* a BandAid was applied on line 2; lines 1 and 3 are untargeted and emitted
C3_Witness ==
    /\ cpc = "done"
    /\ Len(source) = 3
    /\ source[1] # <<>> /\ source[3] # <<>>
    /\ Len(bandaids) = 1
    /\ bandaids[1].span.line = 2
    /\ nxt = 2
    /\ sink # JoinLines(source, 1)

\* the pending BandAid targets a line number smaller than the next line's
StalePending ==
    /\ cpc = "run"
    /\ nxt <= Len(bandaids)
    /\ bandaids[nxt].span.line < lineno + 1

\* C4 (as stated): a pending BandAid for an already passed line is dropped by
\* cursor advancement, so it is not pending any more when correct_lines ends.
C4_StaleDropped ==
    (cpc = "done" /\ nxt <= Len(bandaids)) => bandaids[nxt].span.line > Len(source)

\* C4 (amended): a pending BandAid for an already passed line is never applied
\* and alters no line, but the cursor does not move past it: it stays the
\* pending BandAid, and each remaining line is emitted unchanged.
C4_StaleStaysPending ==
    [][StalePending =>
          /\ nxt' = nxt
          /\ cpc' \in {"run", "done"}
          /\ lineno < Len(source) => sink' = sink \o source[lineno + 1] \o <<NL>>
          /\ lineno = Len(source) => sink' = sink]_vars

\* [line 2, line 1] on three lines: line 3 was emitted with the BandAid for
\* line 1 still pending
C4_Witness ==
    /\ cpc = "done"
    /\ Len(source) = 3
    /\ Len(bandaids) = 2
    /\ bandaids[1].span.line = 2
    /\ bandaids[2].span.line = 1
    /\ nxt = 2

\* ------------------------------------------------------------------------
\* Properties of Action::run in Interactive mode (checked under Spec)
\* ------------------------------------------------------------------------
OnLine(bs, l) == SelectSeq(bs, LAMBDA b : b.span.line = l)

\* the content a file must have after its approved BandAids were applied
RECURSIVE ExpectedFileFrom(_, _, _)
ExpectedFileFrom(lines, bs, l) ==
    IF l > Len(lines) THEN <<>>
    ELSE ExpectedFrom(lines[l], OnLine(bs, l), 1, 0) \o <<NL>>
             \o ExpectedFileFrom(lines, bs, l + 1)
ExpectedFile(bs) == ExpectedFileFrom(SplitLines(FileContent), bs, 1)

PickedPaths == {picked[k].path : k \in 1..Len(picked)}
InCorrection == wpc \in {"canonicalize", "open", "create", "correct", "flush", "rename"}

\* C5: the original is modified only by the rename that ends a correction,
\* taken after correct_lines has processed every line and the flush has put
\* the whole corrected content into the temporary file; when a step of the
\* correction fails, the original still has its content: every file is
\* either fully replaced or untouched.
C5_RenameOnly ==
    /\ [](\A k \in 1..Len(picked) :
              \/ fs[picked[k].path] = FileContent
              \/ fs[picked[k].path] = ExpectedFile(picked[k].bandaids))
    /\ []((wpc = "err" \/ InCorrection) => fs[WPath] = FileContent)
    /\ [][fs' # fs =>
              /\ wpc = "rename"
              /\ writer = <<>>
              /\ tmp.exists
              /\ tmp.bytes = ExpectedFile(picked[wIdx].bandaids)
              /\ fs' = [fs EXCEPT ![WPath] = tmp.bytes]]_vars

\* a correction failed after the temporary file was written: the original is
\* untouched and the temporary file is left behind
C5_Witness ==
    /\ wpc = "err"
    /\ tmp.exists
    /\ tmp.bytes = ExpectedFile(picked[wIdx].bandaids)
    /\ tmp.bytes # FileContent
    /\ fs[WPath] = FileContent

\* C6 (as stated): after an I/O error on one file, every later file of
\* UserPicked is still processed and rewritten.
C6_LaterFilesRewritten ==
    wpc = "err" =>
        \A k \in (wIdx + 1)..Len(picked) :
            fs[picked[k].path] = ExpectedFile(picked[k].bandaids)

\* C6 (amended): an I/O error while rewriting one file is returned by
\* write_changes_to_disk at once: the failing file keeps its content, the files
\* before it stay rewritten, and no later file is opened or rewritten; the
\* loop moves to the next entry only after the current file was rewritten.
C6_FailureAborts ==
    /\ [](wpc = "err" =>
              /\ fs[WPath] = FileContent
              /\ \A k \in 1..(wIdx - 1) :
                    fs[picked[k].path] = ExpectedFile(picked[k].bandaids)
              /\ \A k \in (wIdx + 1)..Len(picked) :
                    /\ fs[picked[k].path] = FileContent
                    /\ picked[k].path \notin opened)
    /\ [][(wIdx >= 1 /\ wIdx' # wIdx) =>
              fs'[picked[wIdx].path] = ExpectedFile(picked[wIdx].bandaids)]_vars
    /\ [][wpc = "err" => wpc' = "err"]_vars

\* the first of two files failed: the second is never processed
C6_Witness ==
    /\ wpc = "err"
    /\ wIdx = 1
    /\ Len(picked) = 2
    /\ fs[picked[2].path] = FileContent

\* C7: no file is opened or written before select_interactive has returned
\* Ok; only files with at least one approved BandAid are ever opened or
\* written; when write_changes_to_disk returns Ok, exactly the files with an
\* approved BandAid are rewritten, each with all of its approved BandAids.
C7_WriteAfterSession ==
    /\ spc # "done" =>
          /\ wpc = "idle"
          /\ opened = {}
          /\ ~tmp.exists
          /\ \A f \in DOMAIN fs : fs[f] = FileContent
    /\ \A k \in 1..Len(picked) : picked[k].bandaids # <<>>
    /\ opened \subseteq PickedPaths
    /\ \A f \in DOMAIN fs : f \notin PickedPaths => fs[f] = FileContent
    /\ wpc = "ok" =>
          /\ opened = PickedPaths
          /\ \A k \in 1..Len(picked) :
                fs[picked[k].path] = ExpectedFile(picked[k].bandaids)

\* two files rewritten: the first with two approved BandAids, the second with one
C7_Witness ==
    /\ wpc = "ok"
    /\ Len(sset) = 2
    /\ Len(picked) = 2
    /\ Len(picked[1].bandaids) = 2
    /\ fs[picked[1].path] # FileContent
    /\ fs[picked[2].path] # FileContent

\* the keys that quit while a candidate is highlighted / in custom entry
QuitKeysSelecting ==
    {e \in KeyEvents : \/ e.code = "Esc"
                       \/ (e.code = "Char" /\ e.ch = "q")
                       \/ (e.code = "Char" /\ e.ch = "c" /\ e.modifiers = "CONTROL")}
QuitKeysCustom ==
    {e \in KeyEvents : \/ e.code = "Esc"
                       \/ (e.code = "Char" /\ e.ch = "c" /\ e.modifiers = "CONTROL")}

\* C8: q, Esc and Ctrl-C (Esc and Ctrl-C in custom entry) yield Pick::Quit;
\* on Pick::Quit select_interactive returns at once with exactly the BandAids
\* recorded before, nothing for the suggestion in progress, and no suggestion
\* is prompted afterwards.
C8_QuitReturnsRecorded ==
    /\ [](spc = "input" =>
              \A e \in (IF IsCustomEntry(state) THEN QuitKeysCustom ELSE QuitKeysSelecting) :
                  LET r == HandleKey(state, CurrentSuggestion, e)
                  IN  r.returned /\ r.pick = Pick("Quit"))
    /\ [][(spc = "match" /\ pick.kind = "Quit") =>
              (spc' = "done" /\ picked' = picked)]_vars
    /\ [][spc = "done" => (spc' = "done" /\ picked' = picked)]_vars

\* quit at the second suggestion of the second file, one BandAid recorded for
\* each file before
C8_Witness ==
    /\ spc = "done"
    /\ Len(sset) = 2
    /\ fileIdx = 2
    /\ sugIdx = 2
    /\ sset[2].suggestions[2].replacements # <<>>
    /\ Len(picked) = 2
    /\ Len(picked[1].bandaids) = 1
    /\ Len(picked[2].bandaids) = 1

ConfirmKeys ==
    {e \in KeyEvents : e.code = "Enter" \/ (e.code = "Char" /\ e.ch = "y")}

\* the last BandAid recorded under path
LastRecorded(entries, path) ==
    LET k == CHOOSE k \in 1..Len(entries) : entries[k].path = path
    IN  entries[k].bandaids[Len(entries[k].bandaids)]

\* C9: while a candidate is highlighted, y and Enter return a Replacement
\* with the highlighted candidate and the suggestion's span, the expect of
\* to_bandaid never fires, the BandAid is recorded under the current file,
\* and a prompt starts with slot 0 highlighted.
C9_ConfirmCandidate ==
    /\ [](spc # "expect_failed")
    /\ []((spc = "input" /\ ~IsCustomEntry(state)) =>
              /\ state.pick_idx < Len(CurrentSuggestion.replacements)
              /\ \A e \in ConfirmKeys :
                    LET r == HandleKey(state, CurrentSuggestion, e)
                    IN  /\ r.returned
                        /\ ~r.panicked
                        /\ r.pick.kind = "Replacement"
                        /\ r.pick.bandaid.replacement =
                              CurrentSuggestion.replacements[state.pick_idx + 1]
                        /\ r.pick.bandaid.span = CurrentSuggestion.span)
    /\ [][(spc = "iter" /\ spc' = "input") => state'.pick_idx = 0]_vars
    /\ [][(spc = "match" /\ pick.kind = "Replacement") =>
              /\ Count(picked') = Count(picked) + 1
              /\ sset[fileIdx].path \in {picked'[k].path : k \in 1..Len(picked')}
              /\ LastRecorded(picked', sset[fileIdx].path) = pick.bandaid]_vars

\* the second candidate was confirmed after moving the highlight
C9_Witness ==
    /\ spc = "match"
    /\ pick.kind = "Replacement"
    /\ state.pick_idx = 1
    /\ ~IsCustomEntry(state)
    /\ pick.bandaid.replacement = CurrentSuggestion.replacements[2]

CharKeyEvents ==
    {e \in KeyEvents : e.code = "Char" /\ ~(e.ch = "c" /\ e.modifiers = "CONTROL")}

\* C10: in custom entry every character key but Ctrl-C is appended to the
\* scratch buffer and returns no Pick; the buffer always equals the characters
\* typed in custom entry during this prompt, in order, also after the custom
\* slot was left and entered again; Enter returns a Replacement with the
\* suggestion's span and exactly that buffer, empty or not.
C10_CustomEntry ==
    /\ []((spc = "input" /\ IsCustomEntry(state)) =>
              /\ \A e \in CharKeyEvents :
                    LET r == HandleKey(state, CurrentSuggestion, e)
                    IN  /\ ~r.returned
                        /\ r.state.custom_replacement =
                              Append(state.custom_replacement, e.ch)
                        /\ r.state.pick_idx = state.pick_idx
              /\ LET r == HandleKey(state, CurrentSuggestion,
                                    [code |-> "Enter", ch |-> "", modifiers |-> "NONE"])
                 IN  /\ r.returned
                     /\ r.pick = PickReplacement([span |-> CurrentSuggestion.span,
                                                  replacement |-> typed]))
    /\ [](spc \in {"input", "match"} => state.custom_replacement = typed)

\* "qy" was typed, the custom slot left and entered again in between, and
\* Enter returned it
C10_Witness ==
    /\ spc = "match"
    /\ pick.kind = "Replacement"
    /\ IsCustomEntry(state)
    /\ away
    /\ typed = <<"q", "y">>
    /\ pick.bandaid.replacement = <<"q", "y">>

\* ------------------------------------------------------------------------
\* Decline, skip-file, help and go-back
\* ------------------------------------------------------------------------
\* the key events of one character, with any modifier
KeysOf(ch) == {e \in KeyEvents : e.code = "Char" /\ e.ch = ch}

\* C11: while a candidate is highlighted, n returns Pick::Skip; on Skip (and
\* on any pick that is not Help, Quit, SkipFile, Previous or Replacement)
\* select_interactive records nothing and goes on with the iterator of the
\* same file, so the next prompt is a later suggestion of that file; a key
\* that returns no Pick (Pick::Nop inside user_input) leaves UserPicked
\* unchanged as well.
C11_DeclineRecordsNothing ==
    /\ []((spc = "input" /\ ~IsCustomEntry(state)) =>
              \A e \in KeysOf("n") :
                  LET r == HandleKey(state, CurrentSuggestion, e)
                  IN  r.returned /\ r.pick = Pick("Skip") /\ r.state = state)
    /\ [][(spc = "match" /\ pick.kind \in {"Skip", "Nop"}) =>
              (spc' = "iter" /\ picked' = picked
                 /\ fileIdx' = fileIdx /\ sugIdx' = sugIdx)]_vars
    /\ [][(spc = "iter" /\ spc' = "input") =>
              (fileIdx' = fileIdx /\ sugIdx' = sugIdx + 1 /\ picked' = picked)]_vars
    /\ [][spc = "input" => picked' = picked]_vars

\* the first suggestion of the second file was declined after a BandAid was
\* recorded for the first file: its second suggestion is prompted and
\* nothing was recorded for the second file
C11_Witness ==
    /\ spc = "input"
    /\ fileIdx = 2
    /\ sugIdx = 2
    /\ sset[2].suggestions[1].replacements # <<>>
    /\ Len(picked) = 1
    /\ picked[1].path = sset[1].path

\* C12: while a candidate is highlighted, d returns Pick::SkipFile; on
\* SkipFile the loop over the file's suggestions is left, UserPicked is
\* unchanged, the iteration goes on with the next file from its first
\* suggestion, the controller never comes back to an earlier file, and a
\* prompt is only ever for a suggestion of the file the iteration is at.
C12_SkipFileAbandons ==
    /\ []((spc = "input" /\ ~IsCustomEntry(state)) =>
              \A e \in KeysOf("d") :
                  LET r == HandleKey(state, CurrentSuggestion, e)
                  IN  r.returned /\ r.pick = Pick("SkipFile"))
    /\ [][(spc = "match" /\ pick.kind = "SkipFile") =>
              (spc' = "iter" /\ picked' = picked
                 /\ fileIdx' = fileIdx + 1 /\ sugIdx' = 0)]_vars
    /\ [][fileIdx' >= fileIdx]_vars
    /\ [][spc' = "input" => (spc \in {"iter", "input", "match"} /\ fileIdx' = fileIdx)]_vars

\* d was pressed at the first of two suggestions of the first file, a second
\* file follows
C12_Witness ==
    /\ spc = "match"
    /\ pick.kind = "SkipFile"
    /\ Len(sset) = 2
    /\ fileIdx = 1
    /\ sugIdx = 1
    /\ Len(sset[1].suggestions) = 2
    /\ sset[1].suggestions[2].replacements # <<>>

\* C13: a suggestion without candidates is never the one user_input is
\* called for; taking it from the iterator only advances the iterator (no
\* prompt, no terminal access, UserPicked unchanged); every recorded BandAid
\* carries the span of a suggestion of its file that has candidates.
C13_EmptySkipped ==
    /\ [](spc \in {"input", "match"} => CurrentSuggestion.replacements # <<>>)
    /\ [][(/\ spc = "iter"
           /\ fileIdx <= Len(sset)
           /\ sugIdx < Len(sset[fileIdx].suggestions)
           /\ sset[fileIdx].suggestions[sugIdx + 1].replacements = <<>>) =>
              (spc' = "iter" /\ sugIdx' = sugIdx + 1 /\ fileIdx' = fileIdx
                 /\ picked' = picked /\ UNCHANGED termVars)]_vars
    /\ [](\A k \in 1..Len(picked) : \A j \in 1..Len(picked[k].bandaids) :
              \E f \in 1..Len(sset) : \E i \in 1..Len(sset[f].suggestions) :
                  /\ sset[f].path = picked[k].path
                  /\ sset[f].suggestions[i].span = picked[k].bandaids[j].span
                  /\ sset[f].suggestions[i].replacements # <<>>)

\* the first suggestion of the file has no candidate, the second is
\* prompted and nothing was recorded
C13_Witness ==
    /\ spc = "input"
    /\ sugIdx = 2
    /\ sset[fileIdx].suggestions[1].replacements = <<>>
    /\ picked = <<>>

C16_RawReleased == raw => spc = "input"

\* a panic unwound out of user_input while its guard held raw mode
C16_Witness ==
    /\ spc = "render_panic"
    /\ ~toggleFailed
    /\ ~raw

\* C17 as stated: after a failed enable_raw_mode or a failed event read the
\* session is aborted with the error, raw mode is off and nothing is written.
C17_TerminalFailureAborts ==
    (toggleFailed \/ spc = "error") => (spc = "error" /\ ~raw /\ wpc = "idle")

\* ------------------------------------------------------------------------
\* Action::check
\* ------------------------------------------------------------------------
TotalSuggestions ==
    Cardinality(UNION { {<<f, i>> : i \in 1..Len(sset[f].suggestions)}
                        : f \in 1..Len(sset) })

\* C18: check returns Err iff the SuggestionSet holds at least one
\* suggestion, and the count it reports is the number of all suggestions of
\* all files, those without candidates included.
C18_CheckCount ==
    cresult.pc \in {"ok", "err"} =>
        /\ (cresult.pc = "err") <=> (TotalSuggestions > 0)
        /\ cresult.pc = "err" => cresult.count = TotalSuggestions

\* two files, three suggestions, one of them without candidates
C18_Witness ==
    /\ cresult.pc = "err"
    /\ cresult.count = 3
    /\ Len(sset) = 2
    /\ \E f \in 1..2 : \E i \in 1..Len(sset[f].suggestions) :
          sset[f].suggestions[i].replacements = <<>>

\* ------------------------------------------------------------------------
\* The overlay
\* ------------------------------------------------------------------------
\* C19 as stated: in every overlay each mapping entry has a plain range and
\* a raw range of the same length, holding the same bytes.
C19_RoundTrip ==
    mpc \in {"done", "resolved"} =>
        \A i \in 1..Len(mapping) :
            LET p == mapping[i].plain
                r == mapping[i].raw
            IN  /\ p.end - p.start = r.end - r.start
                /\ Slice(plain, p.start, p.end) = Slice(markdown, r.start, r.end)

\* C20: every byte PlainOverlay::newlines wrote is a newline outside the plain
\* range of every mapping entry, during the extraction and in the overlay;
\* linear_range_to_spans hands nothing to the resolver and does not panic for
\* a query range that contains such a byte.
C20_SyntheticUnmapped ==
    /\ mpc \in {"run", "done", "resolved"} =>
          \A i \in synthetic :
              /\ i < Len(plain)
              /\ plain[i + 1] = NL
              /\ \A k \in 1..Len(mapping) :
                    ~(mapping[k].plain.start <= i /\ i < mapping[k].plain.end)
    /\ (mpc = "resolved"
          /\ \E i \in synthetic : plain_range.start <= i /\ i < plain_range.end) =>
          resolved = NoSpans

\* a query that starts inside a mapped text run and runs over the synthetic
\* newline after it into the next run
C20_Witness ==
    /\ mpc = "resolved"
    /\ Len(mapping) >= 2
    /\ \E i \in synthetic : plain_range.start < i /\ i + 1 < plain_range.end
    /\ \E k \in 1..Len(mapping) :
          /\ mapping[k].plain.start <= plain_range.start
          /\ plain_range.start < mapping[k].plain.end

\* C21: for every input string the ranges tokenize has pushed are non-empty,
\* lie within the input, are ascending and pairwise non-overlapping, and no
\* character whose bytes a range touches is a boundary character (whitespace
\* or a blacklist character).
C21_TokenRanges ==
    \A i \in 1..Len(bananasplit) :
        LET r == bananasplit[i] IN
        /\ r.start < r.end
        /\ r.end <= StrLen(input)
        /\ (i > 1 => bananasplit[i - 1].end <= r.start)
        /\ \A k \in 1..Len(input) :
              (CharIndex(input, k) < r.end
                  /\ r.start < CharIndex(input, k) + ByteLen(input[k]))
                  => ~(IsWhitespace(input[k]) \/ input[k] \in Blacklist)

C21_Witness ==
    /\ tpc = "done"
    /\ input = <<"e2", ",", "s3", "a">>
    /\ bananasplit = <<Range(0, 2), Range(6, 7)>>

\* C24: when the input ends while a token is in progress, the exclusive end
\* of the final token is the total byte length of the input, also when the
\* last character takes more than one byte.
C24_FinalTokenEnd ==
    (tpc = "done" /\ started)
        => bananasplit[Len(bananasplit)].end = StrLen(input)

\* C22: check always returns Ok, and the returned set holds, per path, the
\* suggestions of LanguageTool followed by those of Hunspell, each only if the
\* backend is enabled and returned Ok; a failed backend contributes nothing.
Contribution(d) ==
    IF d \in config.features /\ d \in config.enabled /\ outcome[d].ok
      THEN outcome[d].set
      ELSE [p \in Paths |-> <<>>]

C22_AdditiveJoin ==
    /\ kpc \in {"idle", "languagetool", "hunspell", "ok"}
    /\ kpc = "ok" =>
          \A p \in Paths :
              collective[p] = Contribution("LanguageTool")[p]
                                  \o Contribution("Hunspell")[p]

C22_Witness ==
    /\ kpc = "ok"
    /\ config.enabled = Detectors
    /\ config.features = Detectors
    /\ ~outcome.LanguageTool.ok
    /\ outcome.Hunspell.ok
    /\ collective[1] = <<"Hunspell">>

\* C23 as stated: for every overlay and every query range the offset
\* assertion of linear_range_to_spans holds for each selected entry, so
\* resolving a range never panics.
C23_OffsetAssertion ==
    mpc = "resolved" => ~resolved.panicked

\* C25 as stated: post-processing removes the trailing newlines of the plain
\* buffer, keeps the number of mapping entries, changes only the last entry,
\* whose plain end becomes min(end, new buffer length), and its assertion
\* start <= end holds for every event stream.
C25_ClampKeepsEntry ==
    [][(mpc = "run" /\ mpc' # "run") =>
          /\ mpc' = "done"
          /\ plain' = SubSeq(plain, 1, Len(plain) - TrailingNewlines(plain))
          /\ Len(mapping') = Len(mapping)
          /\ \A i \in 1..(Len(mapping) - 1) : mapping'[i] = mapping[i]
          /\ mapping # <<>> =>
                LET last == mapping[Len(mapping)]
                    kept == mapping'[Len(mapping)]
                IN  /\ kept.raw = last.raw
                    /\ kept.plain.start = last.plain.start
                    /\ kept.plain.end = Min(last.plain.end, Len(plain'))
                    /\ kept.plain.start <= kept.plain.end]_vars

\* C26: for a non-empty query q inside the plain range p of an entry (p, r)
\* with len(p) = len(r), exactly the raw range [q.start + d, q.end + d) with
\* d = r.start - p.start is handed to the resolver; it has the length of q
\* and lies inside r. A query no entry contains hands over nothing. For the
\* mapping of range_test the query 6..8 gives 12..14.
C26_ShiftedRange ==
    /\ \A ck \in BOOLEAN :
          LinearRangeToSpans(RangeTestMapping, Range(6, 8), ck)
              = [spans |-> <<Range(12, 14)>>, panicked |-> FALSE]
    /\ (mpc = "resolved" /\ plain_range.start < plain_range.end) =>
          LET q == plain_range
              containing == {k \in 1..Len(mapping) :
                                /\ mapping[k].plain.start <= q.start
                                /\ q.end <= mapping[k].plain.end}
          IN  /\ Cardinality(containing) <= 1
              /\ containing = {} => resolved = [spans |-> <<>>, panicked |-> FALSE]
              /\ \A k \in containing :
                    LET p == mapping[k].plain
                        r == mapping[k].raw
                        d == r.start - p.start
                    IN  p.end - p.start = r.end - r.start =>
                          /\ resolved = [spans |-> <<Range(q.start + d, q.end + d)>>,
                                         panicked |-> FALSE]
                          /\ r.start <= q.start + d
                          /\ q.end + d <= r.end

\* a query strictly inside a text run that sits at a different offset in the
\* markdown than in the plain buffer
C26_Witness ==
    /\ mpc = "resolved"
    /\ plain_range.start < plain_range.end
    /\ \E k \in 1..Len(mapping) :
          /\ mapping[k].plain.start <= plain_range.start
          /\ plain_range.end < mapping[k].plain.end
          /\ mapping[k].plain.end - mapping[k].plain.start
                = mapping[k].raw.end - mapping[k].raw.start
          /\ mapping[k].raw.start > mapping[k].plain.start
          /\ Len(resolved.spans) = 1

\* ------------------------------------------------------------------------
\* The prompt, continued
\* ------------------------------------------------------------------------
UpKey == [code |-> "Up", ch |-> "", modifiers |-> "NONE"]
DownKey == [code |-> "Down", ch |-> "", modifiers |-> "NONE"]

\* C27: while a suggestion is prompted, 0 <= pick_idx < n_items and n_items is
\* the number of candidates plus one; Up moves the slot by +1 and Down by -1
\* modulo n_items, one after the other restores the slot, e on a candidate
\* slot moves to the custom slot n_items - 1, and from the custom slot both
\* Up and Down lead to a candidate slot.
C27_SlotInRange ==
    spc = "input" =>
        LET n == state.n_items
            up == HandleKey(state, CurrentSuggestion, UpKey)
            down == HandleKey(state, CurrentSuggestion, DownKey)
        IN  /\ n = Len(CurrentSuggestion.replacements) + 1
            /\ 0 <= state.pick_idx
            /\ state.pick_idx < n
            /\ ~up.returned /\ ~down.returned
            /\ up.state.pick_idx = (state.pick_idx + 1) % n
            /\ down.state.pick_idx = (state.pick_idx + n - 1) % n
            /\ HandleKey(up.state, CurrentSuggestion, DownKey).state.pick_idx
                  = state.pick_idx
            /\ HandleKey(down.state, CurrentSuggestion, UpKey).state.pick_idx
                  = state.pick_idx
            /\ state.pick_idx # n - 1 =>
                  \A e \in KeysOf("e") :
                      HandleKey(state, CurrentSuggestion, e).state.pick_idx = n - 1
            /\ state.pick_idx = n - 1 =>
                  /\ up.state.pick_idx < n - 1
                  /\ down.state.pick_idx < n - 1

\* the custom slot of a suggestion with two candidates, reached by keys
C27_Witness ==
    /\ spc = "input"
    /\ state.n_items = 3
    /\ state.pick_idx = 2
    /\ typed = <<>>

\* C28: the first resize event read during a prompt changes neither the State
\* (highlighted slot, scratch buffer), nor the current file and suggestion,
\* nor UserPicked; no Pick is returned and user_input waits for the next event.
C28_ResizeRedrawsOnly ==
    [][(spc = "input" /\ ~resized /\ resized') =>
          /\ state' = state
          /\ typed' = typed
          /\ fileIdx' = fileIdx
          /\ sugIdx' = sugIdx
          /\ picked' = picked
          /\ pick' = pick
          /\ spc' = "input"]_vars

\* a resize was read while the second slot was highlighted or before it was
C28_Witness ==
    /\ spc = "input"
    /\ resized
    /\ state.pick_idx = 1

\* the position of the suggestion of file f a BandAid was made from
SuggestionIndex(f, b) ==
    CHOOSE i \in 1..Len(sset[f].suggestions) : sset[f].suggestions[i].span = b.span

\* C29: every entry of UserPicked belongs to a file, its BandAids carry the
\* spans of suggestions of that file at strictly increasing positions (at most
\* one per suggestion, in suggestion order), so they are sorted ascending by
\* (line, start) and do not overlap; entries only ever grow at their end.
C29_AppendedInOrder ==
    /\ [](\A k \in 1..Len(picked) :
            \E f \in 1..Len(sset) :
                /\ sset[f].path = picked[k].path
                /\ \A j \in 1..Len(picked[k].bandaids) :
                      \E i \in 1..Len(sset[f].suggestions) :
                          sset[f].suggestions[i].span = picked[k].bandaids[j].span
                /\ \A i, j \in 1..Len(picked[k].bandaids) :
                      i < j =>
                        LET a == picked[k].bandaids[i]
                            b == picked[k].bandaids[j]
                        IN  /\ SuggestionIndex(f, a) < SuggestionIndex(f, b)
                            /\ \/ a.span.line < b.span.line
                               \/ /\ a.span.line = b.span.line
                                  /\ a.span.end <= b.span.start)
    /\ [][/\ Len(picked) <= Len(picked')
          /\ \A k \in 1..Len(picked) :
                /\ picked'[k].path = picked[k].path
                /\ IsPrefix(picked[k].bandaids, picked'[k].bandaids)]_vars

\* two BandAids recorded for one file
C29_Witness ==
    \E k \in 1..Len(picked) :
        /\ Len(picked[k].bandaids) = 2
        /\ picked[k].bandaids[1].span # picked[k].bandaids[2].span

\* C30 as stated: the unreachable!() after the loop of user_input is never
\* executed, whatever events the terminal delivers.
C30_UnreachableNeverRuns ==
    spc # "unreachable"

\* C31: in every overlay extract_plain_with_mapping returns, each entry's
\* plain range satisfies start <= end <= len(plain), the plain ranges are in
\* ascending order and pairwise non-overlapping, and a non-empty query range
\* is fully contained in at most one entry.
C31_PlainRangesOrdered ==
    mpc \in {"done", "resolved"} =>
        /\ \A i \in 1..Len(mapping) :
              /\ mapping[i].plain.start <= mapping[i].plain.end
              /\ mapping[i].plain.end <= Len(plain)
        /\ \A i, j \in 1..Len(mapping) :
              i < j => mapping[i].plain.end <= mapping[j].plain.start
        /\ \A a \in 0..Len(plain) : \A b \in (a + 1)..Len(plain) :
              Cardinality({k \in 1..Len(mapping) :
                              /\ mapping[k].plain.start <= a
                              /\ b <= mapping[k].plain.end}) <= 1

\* an overlay whose last entry was clamped: its text ended in a newline that
\* the truncation removed
C31_Witness ==
    /\ mpc = "done"
    /\ Len(mapping) >= 2
    /\ mapping[Len(mapping)].plain.end = Len(plain)
    /\ mapping[Len(mapping)].plain.end - mapping[Len(mapping)].plain.start = 1
    /\ \E k \in 1..Len(events) :
          /\ events[k].ev = "End"
          /\ events[k].s = <<"t", NL>>
          /\ events[k].offset = mapping[Len(mapping)].raw

\* ------------------------------------------------------------------------
\* The session as a whole
\* ------------------------------------------------------------------------
\* user_input has returned a Pick that decides the suggestion
DecisionTaken ==
    /\ spc = "match"
    /\ pick.kind \in {"Replacement", "Skip", "SkipFile", "Quit"}

\* C32: the position (file, suggestion) never moves backwards; a prompt is
\* opened either for the next suggestion of the current file or, after help,
\* for the same suggestion again; and if every prompt is eventually decided
\* (y, Enter, n, d, q, Esc or Ctrl-C on a candidate slot; Enter, Esc or
\* Ctrl-C on the custom slot), the session eventually returns UserPicked.
C32_SessionEnds ==
    /\ [][\/ fileIdx' > fileIdx
          \/ (fileIdx' = fileIdx /\ sugIdx' >= sugIdx)]_vars
    /\ [][(spc = "iter" /\ spc' = "input") =>
             (fileIdx' = fileIdx /\ sugIdx' = sugIdx + 1)]_vars
    /\ [][(spc = "match" /\ spc' = "input") =>
             (pick.kind = "Help" /\ fileIdx' = fileIdx /\ sugIdx' = sugIdx)]_vars
    /\ ([](spc = "input" => <>DecisionTaken)) => <>(spc = "done")

\* the session has returned after a decision on the last suggestion of the
\* second file
C32_Witness ==
    /\ spc = "done"
    /\ Len(sset) = 2
    /\ fileIdx = 3
    /\ Count(picked) >= 2

\* C32 as stated, and weakened to any end of the session: if every prompt
\* eventually receives one of the keys y, Enter, n, d, q, Esc, Ctrl-C, be it
\* as text typed into the custom slot, the session eventually ends.
C32_AnyDecisionKeyEnds ==
    ([](spc = "input" => <>(DecisionTaken \/ typed # <<>>)))
        => <>(spc \in {"done", "error", "unreachable", "render_panic",
                       "expect_failed", "unimplemented"})

====
